---- MODULE Spec2Model ----
(***************************************************************************)
(* The graph store of kg_builder.py (MockLightRAGKnowledgeGraph), the      *)
(* batch functions built on it (add_entities_to_graph,                     *)
(* add_relationships_to_graph, build_or_update_graph), and the node loop   *)
(* of kag_builder/kg_construction.py with the provenance query of          *)
(* kag_builder/indexing.py; build_or_update_graph called by several        *)
(* threads; and store_embeddings of embedding_store.py with its two        *)
(* collaborators, MockEmbeddingModel and MockVectorDBClient.               *)
(*                                                                         *)
(* A Python dict is a function whose domain is its set of keys; a record   *)
(* of the program that lacks a key is a function without that key.         *)
(***************************************************************************)
EXTENDS Integers, Sequences, FiniteSets, TLC

\* ------------------------------------------------------------------ bounds
MaxNodes == 3          \* nodes the store may hold
MaxEdges == 2          \* edges the store may hold
MaxBatch == 2          \* entities, and relationships, of one batch
MaxKgEntities == 3     \* entity dicts handed to create_kg
MaxKgRelations == 2    \* relation dicts handed to create_kg
NumCallers == 2        \* threads that call build_or_update_graph
MaxCallerBatch == 1    \* entities, and relationships, of one thread's batch
MaxEmbedBatch == 2     \* entities, and relationships, of one store_embeddings
MaxItems == 2          \* records of one list handed to add_items
MaxChunks == 2         \* text chunks of one add_nodes_from_text_chunks call
MaxCounter == 4        \* the highest value GraphBuilder.node_counter takes

\* ------------------------------------------------------- Python's values
\* dict.get(key) on a missing key
None == "None"
\* an id that is a list: truthy, and not usable as a dict key
Unhashable == "[unhashable]"
\* a list item that is no dict at all (None, a string): it has no .get
NotADict == [notadict |-> TRUE]

IsDict(d) == "notadict" \notin DOMAIN d
Hashable(v) == v # Unhashable
\* `not v` is true of None and of the empty string
Truthy(v) == v # None /\ v # ""

\* d.get(k)
Get(d, k) == IF k \in DOMAIN d THEN d[k] ELSE None

\* d[k] = v
Put(d, k, v) == [x \in DOMAIN d \cup {k} |-> IF x = k THEN v ELSE d[x]]

\* d.update(e) as a plain assignment d = e
UpdateReplacing(d, e) == e

\* d.update(e): every key of e takes e's value, the other keys of d stay
Update(d, e) ==
    [k \in DOMAIN d \cup DOMAIN e |-> IF k \in DOMAIN e THEN e[k] ELSE d[k]]

\* f"node_{n}" and f"edge_{n}"
GenNodeId(n) == "node_" \o ToString(n)
GenEdgeId(n) == "edge_" \o ToString(n)

\* len(d)
DictLen(d) == Cardinality(DOMAIN d)

\* ------------------------------------------------------------- the store
\* A store is [nodes, edges, temp]: self.nodes, self.edges,
\* self._temp_node_ids.  Each operation returns
\*   [raised: "ok" or the exception's class, ret: the returned id,
\*    arg: the caller's record after the call, store: the store after it].

Outcome(raised, ret, arg, store) ==
    [raised |-> raised, ret |-> ret, arg |-> arg, store |-> store]

\* WithNodeId ignoring the id the record carries
WithNodeIdAlwaysGenerated(S, entity) ==
    Put(entity, "id", GenNodeId(DictLen(S.nodes) + 1))

\* add_node, lines 42-45: the id the call works under, written back into
\* the caller's record when it was generated
WithNodeId(S, entity) ==
    IF Truthy(Get(entity, "id")) THEN entity
    ELSE Put(entity, "id", GenNodeId(DictLen(S.nodes) + 1))

\* add_node, lines 47-53: update the stored record, or store a copy
UpsertNode(S, e2) ==
    LET node_id == e2["id"]
        stored  == IF node_id \in DOMAIN S.nodes
                   THEN Update(S.nodes[node_id], e2)
                   ELSE e2
    IN  [S EXCEPT !.nodes = Put(S.nodes, node_id, stored),
                  !.temp  = S.temp \cup {node_id}]

\* MockLightRAGKnowledgeGraph.add_node
add_node(S, entity) ==
    IF ~IsDict(entity)
    THEN Outcome("AttributeError", None, entity, S)
    ELSE
      LET e2 == WithNodeId(S, entity)
      IN  IF ~Hashable(e2["id"])
          THEN Outcome("TypeError", None, e2, S)
          ELSE Outcome("ok", e2["id"], e2, UpsertNode(S, e2))

\* EndpointKnown with the test skipped for a record that names no endpoint
EndpointKnownOrAbsent(S, id) ==
    id = None \/ id \in DOMAIN S.nodes \/ id \in S.temp

\* EndpointKnown with `and not` where the code has `or`
EndpointStoredBeforeSession(S, id) ==
    id \in DOMAIN S.nodes /\ id \notin S.temp

\* the endpoint test of add_edge, lines 67 and 70
EndpointKnown(S, id) == id \in DOMAIN S.nodes \/ id \in S.temp

\* add_edge, lines 58-64: the id the call works under
WithEdgeId(S, relationship) ==
    IF Truthy(Get(relationship, "id")) THEN relationship
    ELSE Put(relationship, "id", GenEdgeId(DictLen(S.edges) + 1))

\* add_edge, lines 66-74: the exception the checks raise, "ok" if none
EdgeError(S, r2) ==
    LET source_id == Get(r2, "source_entity_id")
        target_id == Get(r2, "target_entity_id")
    IN  IF ~Hashable(source_id) THEN "TypeError"
        ELSE IF ~EndpointKnown(S, source_id) THEN "ValueError"
        ELSE IF ~Hashable(target_id) THEN "TypeError"
        ELSE IF ~EndpointKnown(S, target_id) THEN "ValueError"
        ELSE IF ~Hashable(r2["id"]) THEN "TypeError"
        ELSE "ok"

\* add_edge, lines 74-79: update the stored record, or store a copy
UpsertEdge(S, r2) ==
    LET edge_id == r2["id"]
        stored  == IF edge_id \in DOMAIN S.edges
                   THEN Update(S.edges[edge_id], r2)
                   ELSE r2
    IN  [S EXCEPT !.edges = Put(S.edges, edge_id, stored)]

\* add_edge storing the record before it validates the endpoints
add_edge_store_then_check(S, relationship) ==
    IF ~IsDict(relationship)
    THEN Outcome("AttributeError", None, relationship, S)
    ELSE
      LET r2  == WithEdgeId(S, relationship)
          err == EdgeError(S, r2)
      IN  IF ~Hashable(r2["id"])
          THEN Outcome("TypeError", None, r2, S)
          ELSE Outcome(err, IF err = "ok" THEN r2["id"] ELSE None, r2,
                       UpsertEdge(S, r2))

\* MockLightRAGKnowledgeGraph.add_edge
add_edge(S, relationship) ==
    IF ~IsDict(relationship)
    THEN Outcome("AttributeError", None, relationship, S)
    ELSE
      LET r2  == WithEdgeId(S, relationship)
          err == EdgeError(S, r2)
      IN  IF err # "ok"
          THEN Outcome(err, None, r2, S)
          ELSE Outcome("ok", r2["id"], r2, UpsertEdge(S, r2))

\* clear_session_tracking resetting the node table with the session
clear_session_and_nodes(S) == [S EXCEPT !.temp = {}, !.nodes = <<>>]

\* MockLightRAGKnowledgeGraph.clear_session_tracking
clear_session_tracking(S) == [S EXCEPT !.temp = {}]

\* ------------------------------------------------------------------ state
VARIABLES
    nodes,            \* kg_instance.nodes: id -> stored entity
    edges,            \* kg_instance.edges: id -> stored relationship
    temp_node_ids,    \* kg_instance._temp_node_ids
    pc,               \* where build_or_update_graph stands
    entities,         \* the batch's entity list
    relationships,    \* the batch's relationship list
    idx,              \* index of the next list item of the running loop
    added_node_ids,   \* add_entities_to_graph's list
    added_edge_ids,   \* add_relationships_to_graph's list
    calls,            \* the store calls the running batch has made
    last,             \* the call that ended last, and how it ended
    kg_pc,            \* where create_kg stands
    kg_entities,      \* create_kg's entities argument
    kg_relations,     \* create_kg's relations argument
    kg_idx,           \* index of the next list item of create_kg's loop
    graph,            \* create_kg's graph: its nodes and its keyed edges
    kg_available,     \* kg_instance is bound to a store (it is not None)
    batches,          \* per calling thread: where its build_or_update_graph
                      \* stands, and that call's locals
    embedding_model_client,   \* embedding_store's client is not None
    vector_db_client,         \* embedding_store's client is not None
    es_pc,            \* where store_embeddings stands
    es_entities,      \* store_embeddings' entities argument
    es_relationships, \* store_embeddings' relationships argument
    entities_map_for_relationships,
    items_to_add_to_db,
    entities_processed_count,
    relationships_processed_count,
    es_calls,         \* the collaborator calls store_embeddings has made
    es_result,        \* how store_embeddings ended, and what it returned
    vector_store,     \* vector_db_client._vector_store
    replica_store,    \* the _vector_store of a second MockVectorDBClient
    vs_first,         \* a list of records for add_items
    vs_second,        \* another list of records for add_items
    vs_step,          \* how many add_items calls the two clients have had
    desc_kind,        \* which description function is applied
    desc_record,      \* the entity or relationship it is applied to
    desc_twin,        \* that record with its attribute keys reordered
    desc_map,         \* the entity lookup map of the relationship pass
    desc_out,         \* how the function ended, and the strings it built
    gb_graph,         \* GraphBuilder.graph: its nodes and its edges
    node_counter,     \* GraphBuilder.node_counter
    gml_file,         \* what the GML file at the path holds
    node_ids          \* what add_nodes_from_text_chunks returned last

vars == <<nodes, edges, temp_node_ids, pc, entities, relationships, idx,
          added_node_ids, added_edge_ids, calls, last,
          kg_pc, kg_entities, kg_relations, kg_idx, graph, kg_available,
          batches, embedding_model_client, vector_db_client, es_pc,
          es_entities, es_relationships, entities_map_for_relationships,
          items_to_add_to_db, entities_processed_count,
          relationships_processed_count, es_calls, es_result,
          vector_store, replica_store, vs_first, vs_second, vs_step,
          desc_kind, desc_record, desc_twin, desc_map, desc_out,
          gb_graph, node_counter, gml_file, node_ids>>

kg_vars == <<kg_pc, kg_entities, kg_relations, kg_idx, graph>>

store_vars == <<nodes, edges, temp_node_ids>>

\* what the operations on the graph store and create_kg leave alone
\* store_embeddings: the two clients, the arguments, the locals, the result
embed_vars == <<embedding_model_client, vector_db_client, es_pc, es_entities,
                es_relationships, entities_map_for_relationships,
                items_to_add_to_db, entities_processed_count,
                relationships_processed_count, es_calls, es_result>>

\* the vector stores and the lists handed to them
vector_vars == <<vector_store, replica_store, vs_first, vs_second, vs_step>>

\* the description functions' arguments and results
describe_vars == <<desc_kind, desc_record, desc_twin, desc_map, desc_out>>

\* the GraphBuilder, the file it saves to and loads from, its last result
builder_vars == <<gb_graph, node_counter, gml_file, node_ids>>

later_vars == <<describe_vars, builder_vars>>

other_vars == <<kg_available, batches, embed_vars, vector_vars, later_vars>>

\* store_embeddings has not been called; the vector stores are empty
\* (MockVectorDBClient.__init__, line 59)
EmbedIdle ==
    /\ embedding_model_client = TRUE
    /\ vector_db_client = TRUE
    /\ es_pc = "idle"
    /\ es_entities = <<>>
    /\ es_relationships = <<>>
    /\ entities_map_for_relationships = <<>>
    /\ items_to_add_to_db = <<>>
    /\ entities_processed_count = 0
    /\ relationships_processed_count = 0
    /\ es_calls = <<>>
    /\ es_result = [raised |-> "ok", ret |-> None]

VectorIdle ==
    /\ vector_store = <<>>
    /\ replica_store = <<>>
    /\ vs_first = <<>>
    /\ vs_second = <<>>
    /\ vs_step = 0

\* no description function has been applied
DescribeIdle ==
    /\ desc_kind = "none"
    /\ desc_record = <<>>
    /\ desc_twin = <<>>
    /\ desc_map = <<>>
    /\ desc_out = [raised |-> "pending"]

\* GraphBuilder.__init__, lines 5-7; no file has been written
BuilderIdle ==
    /\ gb_graph = [nodes |-> <<>>, edges |-> {}]
    /\ node_counter = 0
    /\ gml_file = [readable |-> FALSE]
    /\ node_ids = <<>>

batch_vars == <<pc, entities, relationships, idx, added_node_ids,
                added_edge_ids, calls>>

Store == [nodes |-> nodes, edges |-> edges, temp |-> temp_node_ids]

SetStore(S) ==
    /\ nodes' = S.nodes
    /\ edges' = S.edges
    /\ temp_node_ids' = S.temp

\* ----------------------------------------------------------------- inputs
EntityInputs ==
    {[id |-> "e1", text |-> "A"], [id |-> "e1", text |-> "B"],
     [id |-> "node_2", text |-> "A"], [text |-> "A"]}

RelationshipInputs ==
    {[id |-> "r1", source_entity_id |-> "e1", target_entity_id |-> "e1"],
     [id |-> "r1", source_entity_id |-> "e1", target_entity_id |-> "node_2"],
     [id |-> "edge_2", source_entity_id |-> "node_1",
      target_entity_id |-> "e1"],
     [source_entity_id |-> "e1", target_entity_id |-> "e1"],
     [id |-> "r1", source_entity_id |-> "e1"]}

BatchEntities ==
    {[id |-> "e1", text |-> "A"], [text |-> "A"],
     [id |-> Unhashable, text |-> "A"], NotADict}

BatchRelationships ==
    {[id |-> "r1", source_entity_id |-> "node_1",
      target_entity_id |-> "node_2"],
     [source_entity_id |-> "e1", target_entity_id |-> "e1"],
     NotADict}

SeqsUpTo(S, n) == UNION {[1..k -> S] : k \in 0..n}

\* the store has room for what the call may add
RoomForNodes(n) == DictLen(nodes) + n <= MaxNodes
RoomForEdges(n) == DictLen(edges) + n <= MaxEdges

\* The record of a call that has ended: the operation, the argument as it
\* was passed, how the call ended, what it returned, and whether the call
\* before it was the same operation on an equal argument.
NoCall == [op |-> "none", arg |-> <<>>, raised |-> "ok", ret |-> None,
           repeat |-> FALSE]

Called(op, arg, raised, ret) ==
    last' = [op |-> op, arg |-> arg, raised |-> raised, ret |-> ret,
             repeat |-> last.op = op /\ last.arg = arg]

Init ==
    /\ nodes = <<>>
    /\ edges = <<>>
    /\ temp_node_ids = {}
    /\ pc = "idle"
    /\ entities = <<>>
    /\ relationships = <<>>
    /\ idx = 1
    /\ added_node_ids = <<>>
    /\ added_edge_ids = <<>>
    /\ calls = <<>>
    /\ last = NoCall
    /\ DescribeIdle
    /\ BuilderIdle
    /\ kg_pc = "idle"
    /\ kg_entities = <<>>
    /\ kg_relations = <<>>
    /\ kg_idx = 1
    /\ graph = [nodes |-> <<>>, edges |-> <<>>]
    /\ kg_available = TRUE
    /\ batches = [c \in 1..NumCallers |->
                    [pc |-> "idle", entities |-> <<>>, relationships |-> <<>>,
                     idx |-> 1, added_node_ids |-> <<>>,
                     added_edge_ids |-> <<>>]]
    /\ EmbedIdle
    /\ VectorIdle

\* ----------------------------------------------- calls made on the store
\* kg_instance.add_node(entity), called by the application itself
AddNodeFrom(E) ==
    /\ pc = "idle"
    /\ kg_available
    /\ \E entity \in E :
          LET o == add_node(Store, entity)
          IN  /\ DictLen(o.store.nodes) <= MaxNodes
              /\ SetStore(o.store)
              /\ Called("add_node", entity, o.raised, o.ret)
    /\ UNCHANGED batch_vars
    /\ UNCHANGED <<kg_vars, other_vars>>

\* kg_instance.add_edge(relationship), called by the application itself
AddEdgeFrom(R) ==
    /\ pc = "idle"
    /\ kg_available
    /\ \E relationship \in R :
          LET o == add_edge(Store, relationship)
          IN  /\ DictLen(o.store.edges) <= MaxEdges
              /\ SetStore(o.store)
              /\ Called("add_edge", relationship, o.raised, o.ret)
    /\ UNCHANGED batch_vars
    /\ UNCHANGED <<kg_vars, other_vars>>

AddNodeCall == AddNodeFrom(EntityInputs)

AddEdgeCall == AddEdgeFrom(RelationshipInputs)

\* kg_instance.clear_session_tracking(), called by the application itself
ClearSessionCall ==
    /\ pc = "idle"
    /\ kg_available
    /\ SetStore(clear_session_tracking(Store))
    /\ Called("clear_session_tracking", <<>>, "ok", None)
    /\ UNCHANGED batch_vars
    /\ UNCHANGED <<kg_vars, other_vars>>

\* ------------------------------------------------- build_or_update_graph
\* The except clauses of both loops format their log line with
\* item.get(...): on an item without .get the handler itself raises, and
\* that exception leaves the loop and the batch.
HandlerRaises(item) == ~IsDict(item)

CallRecord(op, o) == [op |-> op, raised |-> o.raised, ret |-> o.ret]

Finished(raised, ret) ==
    /\ pc' = "idle"
    /\ Called("build_or_update_graph", <<>>, raised, ret)
    /\ entities' = <<>>
    /\ relationships' = <<>>
    /\ idx' = 1
    /\ added_node_ids' = <<>>
    /\ added_edge_ids' = <<>>
    /\ calls' = <<>>

\* kg_instance is rebound to None while no batch runs (lines 93-96 when the
\* constructor fails, lines 226-227 of the module's own example)
KgInstanceUnbind ==
    /\ pc = "idle"
    /\ kg_available
    /\ kg_available' = FALSE
    /\ UNCHANGED <<store_vars, batch_vars, last, kg_vars, batches,
                   embed_vars, vector_vars, later_vars>>

\* the test of line 154 with the branch never taken
kg_instance_never_missing == FALSE

\* build_or_update_graph, line 154: `if not kg_instance`
kg_instance_missing == ~kg_available

\* build_or_update_graph, lines 154-156: without a store the call returns
\* two empty lists at once
BuildUnavailable ==
    /\ pc = "idle"
    /\ kg_instance_missing
    /\ Called("build_or_update_graph", <<>>, "ok",
              [added_nodes |-> <<>>, added_edges |-> <<>>])
    /\ UNCHANGED <<store_vars, batch_vars, kg_vars, other_vars>>

\* build_or_update_graph(entities, relationships) up to its first loop:
\* the session is cleared
BuildStart ==
    /\ pc = "idle"
    /\ ~kg_instance_missing
    /\ \E es \in SeqsUpTo(BatchEntities, MaxBatch),
          rs \in SeqsUpTo(BatchRelationships, MaxBatch) :
          /\ RoomForNodes(Len(es))
          /\ RoomForEdges(Len(rs))
          /\ entities' = es
          /\ relationships' = rs
    /\ SetStore(clear_session_tracking(Store))
    /\ pc' = "entities"
    /\ idx' = 1
    /\ added_node_ids' = <<>>
    /\ added_edge_ids' = <<>>
    /\ calls' = <<[op |-> "clear_session_tracking", raised |-> "ok",
                   ret |-> None]>>
    /\ Called("clear_session_tracking", <<>>, "ok", None)
    /\ UNCHANGED <<kg_vars, other_vars>>

\* one turn of the loop of add_entities_to_graph
AddEntityStep ==
    /\ pc = "entities"
    /\ idx <= Len(entities)
    /\ LET entity == entities[idx]
           o == add_node(Store, entity)
       IN  /\ SetStore(o.store)
           /\ IF o.raised # "ok" /\ HandlerRaises(entity)
              THEN Finished(o.raised, None)
              ELSE /\ Called("add_node", entity, o.raised, o.ret)
                   /\ entities' = [entities EXCEPT ![idx] = o.arg]
                   /\ calls' = Append(calls, CallRecord("add_node", o))
                   /\ added_node_ids' =
                        IF o.raised = "ok" THEN Append(added_node_ids, o.ret)
                        ELSE added_node_ids
                   /\ idx' = idx + 1
                   /\ UNCHANGED <<pc, relationships, added_edge_ids>>
    /\ UNCHANGED <<kg_vars, other_vars>>

\* add_entities_to_graph returns, add_relationships_to_graph begins
AddEntitiesReturn ==
    /\ pc = "entities"
    /\ idx > Len(entities)
    /\ pc' = "relationships"
    /\ idx' = 1
    /\ Called("add_entities_to_graph", <<>>, "ok", added_node_ids)
    /\ UNCHANGED <<store_vars, entities, relationships, added_node_ids,
                   added_edge_ids, calls>>
    /\ UNCHANGED <<kg_vars, other_vars>>

\* one turn of the loop of add_relationships_to_graph
AddRelationshipStep ==
    /\ pc = "relationships"
    /\ idx <= Len(relationships)
    /\ LET rel == relationships[idx]
           o == add_edge(Store, rel)
       IN  /\ SetStore(o.store)
           /\ IF o.raised # "ok" /\ HandlerRaises(rel)
              THEN Finished(o.raised, None)
              ELSE /\ Called("add_edge", rel, o.raised, o.ret)
                   /\ relationships' = [relationships EXCEPT ![idx] = o.arg]
                   /\ calls' = Append(calls, CallRecord("add_edge", o))
                   /\ added_edge_ids' =
                        IF o.raised = "ok" THEN Append(added_edge_ids, o.ret)
                        ELSE added_edge_ids
                   /\ idx' = idx + 1
                   /\ UNCHANGED <<pc, entities, added_node_ids>>
    /\ UNCHANGED <<kg_vars, other_vars>>

\* build_or_update_graph returns its two lists
BuildReturn ==
    /\ pc = "relationships"
    /\ idx > Len(relationships)
    /\ Finished("ok", [added_nodes |-> added_node_ids,
                       added_edges |-> added_edge_ids])
    /\ UNCHANGED store_vars
    /\ UNCHANGED <<kg_vars, other_vars>>

Next ==
    \/ AddNodeCall
    \/ AddEdgeCall
    \/ ClearSessionCall
    \/ KgInstanceUnbind
    \/ BuildUnavailable
    \/ BuildStart
    \/ AddEntityStep
    \/ AddEntitiesReturn
    \/ AddRelationshipStep
    \/ BuildReturn

Spec == Init /\ [][Next]_vars

\* ------------------------------------------- upserts of records with payload
\* Records under one id that differ in which fields they carry and in their
\* attributes maps.
AttributeMaps ==
    {<<>>, [k1 |-> "v1"], [k1 |-> "v2"], [k2 |-> "v2"],
     [k1 |-> "v1", k2 |-> "v2"]}

AttributeParts == {<<>>} \cup {[attributes |-> m] : m \in AttributeMaps}

PayloadEntities ==
    {[id |-> "e1"] @@ t @@ a :
        t \in {<<>>, [text |-> "A"], [text |-> "B"]}, a \in AttributeParts}

PayloadRelationships ==
    {[id |-> "r1", source_entity_id |-> "e1", target_entity_id |-> "e1"] @@ a :
        a \in AttributeParts}
    \cup {[id |-> "r1", source_entity_id |-> "e1", target_entity_id |-> "e1",
           label |-> "WORKS_AT"]}

UpsertNodeCall == AddNodeFrom(PayloadEntities)

UpsertEdgeCall == AddEdgeFrom(PayloadRelationships)

NextUpsert ==
    \/ UpsertNodeCall
    \/ UpsertEdgeCall
    \/ ClearSessionCall

SpecUpsert == Init /\ [][NextUpsert]_vars

\* ---------------------------------------------------------------- create_kg
\* The graph is [nodes, edges]: nodes maps a node id to its attribute dict,
\* edges maps <<u, v, key>> to the attribute dict of that edge.

\* entity dicts: 'text' is the node id, 'text_chunk_id' tags the source chunk
KgEntityInputs ==
    {[text |-> t, label |-> "CHEMICAL"] @@ c :
        t \in {"Aspirin", "IL6"},
        c \in {<<>>, [text_chunk_id |-> "c1"], [text_chunk_id |-> "c2"]}}

KgRelationInputs ==
    {[entity1_text |-> "Aspirin", entity2_text |-> v, type |-> "TREATS",
      text_chunk_id |-> c] : v \in {"Aspirin", "IL6"}, c \in {"c1", "c2"}}

\* {k: v for k, v in d.items() if k not in keys}
Without(d, keys) == [k \in DOMAIN d \ keys |-> d[k]]

\* graph.has_node(n)
has_node(g, n) == n \in DOMAIN g.nodes

\* MultiDiGraph.add_edge(u, v) without a key: the new edge's key is the
\* number of edges u -> v so far
NewEdgeKey(g, u, v) == Cardinality({e \in DOMAIN g.edges : e[1] = u /\ e[2] = v})

\* the node branch with existing attribute keys never overwritten
KgMergeKeepExisting(old, attributes) ==
    [k \in DOMAIN old \cup DOMAIN attributes |->
        IF k \in DOMAIN old THEN old[k] ELSE attributes[k]]

\* create_kg, lines 38-42: each attribute that is new or differs is written
KgMergeNode(old, attributes) ==
    [k \in DOMAIN old \cup DOMAIN attributes |->
        IF k \in DOMAIN attributes
           /\ (k \notin DOMAIN old \/ old[k] # attributes[k])
        THEN attributes[k]
        ELSE old[k]]

\* create_kg, lines 27-42: one turn of the loop over the entities
KgAddEntity(g, entity_dict) ==
    LET node_id    == entity_dict["text"]
        attributes == Without(entity_dict, {"text"})
    IN  [g EXCEPT !.nodes =
            Put(g.nodes, node_id,
                IF ~has_node(g, node_id) THEN attributes
                ELSE KgMergeNode(g.nodes[node_id], attributes))]

\* create_kg, lines 46-64: one turn of the loop over the relations
KgAddRelation(g, rel_dict) ==
    LET source_node == rel_dict["entity1_text"]
        target_node == rel_dict["entity2_text"]
        edge_attributes ==
            Put(Without(rel_dict, {"entity1_text", "entity2_text", "type"}),
                "type", rel_dict["type"])
    IN  IF has_node(g, source_node) /\ has_node(g, target_node)
        THEN [g EXCEPT !.edges =
                Put(g.edges,
                    <<source_node, target_node,
                      NewEdgeKey(g, source_node, target_node)>>,
                    edge_attributes)]
        ELSE g

\* ChunkSet without the test of lines 33 and 63
ChunkSetUntested(source_id) == {source_id}

\* the set a stored text_chunk_id stands for (indexing.py, lines 32-37 and
\* 62-67): nothing when it is missing or empty, else the one chunk id
ChunkSet(source_id) == IF Truthy(source_id) THEN {source_id} ELSE {}

\* indexing.get_source_ids_for_node
get_source_ids_for_node(g, node_id) ==
    IF ~has_node(g, node_id) THEN {}
    ELSE ChunkSet(Get(g.nodes[node_id], "text_chunk_id"))

\* indexing.get_source_ids_for_edge with a key
get_source_ids_for_edge(g, u, v, key) ==
    IF <<u, v, key>> \notin DOMAIN g.edges THEN {}
    ELSE ChunkSet(Get(g.edges[<<u, v, key>>], "text_chunk_id"))

\* graph.has_edge(u, v)
has_edge(g, u, v) == \E e \in DOMAIN g.edges : e[1] = u /\ e[2] = v

\* get_edge_data(u, v) that gives the edge of the lowest key alone
get_edge_data_first(g, u, v) ==
    LET keys == {e[3] : e \in {x \in DOMAIN g.edges : x[1] = u /\ x[2] = v}}
    IN  [k \in {x \in keys : \A y \in keys : x <= y} |-> g.edges[<<u, v, k>>]]

\* graph.get_edge_data(u, v): the attribute dict of each edge u -> v, by key
get_edge_data(g, u, v) ==
    LET keys == {e[3] : e \in {x \in DOMAIN g.edges : x[1] = u /\ x[2] = v}}
    IN  [k \in keys |-> g.edges[<<u, v, k>>]]

\* indexing.get_source_ids_for_edge without a key (lines 55-58, 68-76)
get_source_ids_for_edge_no_key(g, u, v) ==
    IF ~has_edge(g, u, v) THEN {}
    ELSE LET all_edges_data == get_edge_data(g, u, v)
         IN  UNION {ChunkSet(Get(all_edges_data[k], "text_chunk_id")) :
                      k \in DOMAIN all_edges_data}

\* create_kg(entities, relations) has been called: a new, empty graph
InitKg ==
    /\ nodes = <<>>
    /\ edges = <<>>
    /\ temp_node_ids = {}
    /\ pc = "idle"
    /\ entities = <<>>
    /\ relationships = <<>>
    /\ idx = 1
    /\ added_node_ids = <<>>
    /\ added_edge_ids = <<>>
    /\ calls = <<>>
    /\ last = NoCall
    /\ DescribeIdle
    /\ BuilderIdle
    /\ kg_pc = "entities"
    /\ kg_entities \in SeqsUpTo(KgEntityInputs, MaxKgEntities)
    /\ kg_relations \in SeqsUpTo(KgRelationInputs, MaxKgRelations)
    /\ kg_idx = 1
    /\ graph = [nodes |-> <<>>, edges |-> <<>>]
    /\ kg_available = TRUE
    /\ batches = <<>>
    /\ EmbedIdle
    /\ VectorIdle

\* one turn of create_kg's loop over the entities
CreateKgEntityStep ==
    /\ kg_pc = "entities"
    /\ kg_idx <= Len(kg_entities)
    /\ graph' = KgAddEntity(graph, kg_entities[kg_idx])
    /\ kg_idx' = kg_idx + 1
    /\ UNCHANGED <<kg_pc, kg_entities, kg_relations>>
    /\ UNCHANGED <<store_vars, batch_vars, last, other_vars>>

\* the loop over the entities ends, the loop over the relations begins
CreateKgEntitiesDone ==
    /\ kg_pc = "entities"
    /\ kg_idx > Len(kg_entities)
    /\ kg_pc' = "relations"
    /\ kg_idx' = 1
    /\ UNCHANGED <<graph, kg_entities, kg_relations>>
    /\ UNCHANGED <<store_vars, batch_vars, last, other_vars>>

\* one turn of create_kg's loop over the relations
CreateKgRelationStep ==
    /\ kg_pc = "relations"
    /\ kg_idx <= Len(kg_relations)
    /\ graph' = KgAddRelation(graph, kg_relations[kg_idx])
    /\ kg_idx' = kg_idx + 1
    /\ UNCHANGED <<kg_pc, kg_entities, kg_relations>>
    /\ UNCHANGED <<store_vars, batch_vars, last, other_vars>>

\* create_kg returns the graph
CreateKgReturn ==
    /\ kg_pc = "relations"
    /\ kg_idx > Len(kg_relations)
    /\ kg_pc' = "returned"
    /\ UNCHANGED <<graph, kg_entities, kg_relations, kg_idx>>
    /\ UNCHANGED <<store_vars, batch_vars, last, other_vars>>

NextKg ==
    \/ CreateKgEntityStep
    \/ CreateKgEntitiesDone
    \/ CreateKgRelationStep
    \/ CreateKgReturn

SpecKg == InitKg /\ [][NextKg]_vars


\* ------------------------------------------------ the provenance queries
\* The queries of indexing.py asked of a MultiDiGraph: nodes with and
\* without a text_chunk_id (and with an empty one), parallel edges with and
\* without one.
IndexNodeNames == {"Aspirin", "IL6"}

IndexNodeData == {<<>>, [text_chunk_id |-> "c1"], [text_chunk_id |-> ""]}

IndexEdgeKeys ==
    {<<"Aspirin", "IL6", 0>>, <<"Aspirin", "IL6", 1>>,
     <<"Aspirin", "Aspirin", 0>>}

IndexEdgeData ==
    {[type |-> "TREATS"], [type |-> "TREATS", text_chunk_id |-> "c1"],
     [type |-> "TREATS", text_chunk_id |-> "c2"]}

\* the graphs: every edge joins two nodes of the graph
IndexGraphs ==
    UNION {UNION {{[nodes |-> ns, edges |-> es] :
                     ns \in [N -> IndexNodeData], es \in [E -> IndexEdgeData]} :
                  E \in SUBSET {e \in IndexEdgeKeys : e[1] \in N /\ e[2] \in N}} :
           N \in SUBSET IndexNodeNames}

\* the node ids and edge keys asked for: those of the graphs, and one of
\* each that no graph holds
QueryNodes == IndexNodeNames \cup {"Ibuprofen"}
QueryKeys == {0, 1, 2}

InitIndex ==
    /\ nodes = <<>>
    /\ edges = <<>>
    /\ temp_node_ids = {}
    /\ pc = "idle"
    /\ entities = <<>>
    /\ relationships = <<>>
    /\ idx = 1
    /\ added_node_ids = <<>>
    /\ added_edge_ids = <<>>
    /\ calls = <<>>
    /\ last = NoCall
    /\ DescribeIdle
    /\ BuilderIdle
    /\ kg_pc = "returned"
    /\ kg_entities = <<>>
    /\ kg_relations = <<>>
    /\ kg_idx = 1
    /\ graph \in IndexGraphs
    /\ kg_available = TRUE
    /\ batches = <<>>
    /\ EmbedIdle
    /\ VectorIdle

\* get_source_ids_for_node(graph, node_id)
QueryNode ==
    /\ \E node_id \in QueryNodes :
          Called("get_source_ids_for_node", <<node_id>>, "ok",
                 get_source_ids_for_node(graph, node_id))
    /\ UNCHANGED <<store_vars, batch_vars, kg_vars, other_vars>>

\* get_source_ids_for_edge(graph, u, v, key)
QueryEdge ==
    /\ \E u \in QueryNodes, v \in QueryNodes, key \in QueryKeys :
          Called("get_source_ids_for_edge", <<u, v, key>>, "ok",
                 get_source_ids_for_edge(graph, u, v, key))
    /\ UNCHANGED <<store_vars, batch_vars, kg_vars, other_vars>>

\* get_source_ids_for_edge(graph, u, v)
QueryEdgeNoKey ==
    /\ \E u \in QueryNodes, v \in QueryNodes :
          Called("get_source_ids_for_edge", <<u, v>>, "ok",
                 get_source_ids_for_edge_no_key(graph, u, v))
    /\ UNCHANGED <<store_vars, batch_vars, kg_vars, other_vars>>

NextIndex ==
    \/ QueryNode
    \/ QueryEdge
    \/ QueryEdgeNoKey

SpecIndex == InitIndex /\ [][NextIndex]_vars

\* ------------------------------ build_or_update_graph called by threads
\* kg_builder.py holds no lock: build_or_update_graph is a module function
\* on the module's one kg_instance, and a thread that calls it runs its
\* store calls one by one, any other thread's calls in between.
Callers == 1..NumCallers

CallerEntities == {[id |-> "e1", text |-> "A"], [text |-> "A"]}

CallerRelationships ==
    {[id |-> "r1", source_entity_id |-> "e1", target_entity_id |-> "e1"]}

IdleBatch ==
    [pc |-> "idle", entities |-> <<>>, relationships |-> <<>>, idx |-> 1,
     added_node_ids |-> <<>>, added_edge_ids |-> <<>>]

InitCallers ==
    /\ Init
    /\ kg_available

\* thread c enters build_or_update_graph: line 158 clears the session
CallerBuildStart(c) ==
    /\ batches[c].pc = "idle"
    /\ ~kg_instance_missing
    /\ \E es \in SeqsUpTo(CallerEntities, MaxCallerBatch),
          rs \in SeqsUpTo(CallerRelationships, MaxCallerBatch) :
          batches' = [batches EXCEPT ![c] =
                        [IdleBatch EXCEPT !.pc = "entities",
                                          !.entities = es,
                                          !.relationships = rs]]
    /\ SetStore(clear_session_tracking(Store))
    /\ Called("clear_session_tracking", <<>>, "ok", None)
    /\ UNCHANGED <<batch_vars, kg_vars, kg_available, embed_vars,
                   vector_vars, later_vars>>

\* thread c runs one turn of the loop of add_entities_to_graph
CallerAddEntityStep(c) ==
    LET b == batches[c] IN
    /\ b.pc = "entities"
    /\ b.idx <= Len(b.entities)
    /\ LET entity == b.entities[b.idx]
           o == add_node(Store, entity)
       IN  /\ DictLen(o.store.nodes) <= MaxNodes
           /\ SetStore(o.store)
           /\ IF o.raised # "ok" /\ HandlerRaises(entity)
              THEN /\ batches' = [batches EXCEPT ![c] = IdleBatch]
                   /\ Called("build_or_update_graph", <<>>, o.raised, None)
              ELSE /\ Called("add_node", entity, o.raised, o.ret)
                   /\ batches' = [batches EXCEPT ![c] =
                        [b EXCEPT !.entities[b.idx] = o.arg,
                                  !.added_node_ids =
                                      IF o.raised = "ok"
                                      THEN Append(b.added_node_ids, o.ret)
                                      ELSE b.added_node_ids,
                                  !.idx = b.idx + 1]]
    /\ UNCHANGED <<batch_vars, kg_vars, kg_available, embed_vars,
                   vector_vars, later_vars>>

\* thread c: add_entities_to_graph returns, add_relationships_to_graph begins
CallerAddEntitiesReturn(c) ==
    LET b == batches[c] IN
    /\ b.pc = "entities"
    /\ b.idx > Len(b.entities)
    /\ batches' = [batches EXCEPT ![c] =
                     [b EXCEPT !.pc = "relationships", !.idx = 1]]
    /\ Called("add_entities_to_graph", <<>>, "ok", b.added_node_ids)
    /\ UNCHANGED <<store_vars, batch_vars, kg_vars, kg_available,
                   embed_vars, vector_vars, later_vars>>

\* thread c runs one turn of the loop of add_relationships_to_graph
CallerAddRelationshipStep(c) ==
    LET b == batches[c] IN
    /\ b.pc = "relationships"
    /\ b.idx <= Len(b.relationships)
    /\ LET rel == b.relationships[b.idx]
           o == add_edge(Store, rel)
       IN  /\ DictLen(o.store.edges) <= MaxEdges
           /\ SetStore(o.store)
           /\ IF o.raised # "ok" /\ HandlerRaises(rel)
              THEN /\ batches' = [batches EXCEPT ![c] = IdleBatch]
                   /\ Called("build_or_update_graph", <<>>, o.raised, None)
              ELSE /\ Called("add_edge", rel, o.raised, o.ret)
                   /\ batches' = [batches EXCEPT ![c] =
                        [b EXCEPT !.relationships[b.idx] = o.arg,
                                  !.added_edge_ids =
                                      IF o.raised = "ok"
                                      THEN Append(b.added_edge_ids, o.ret)
                                      ELSE b.added_edge_ids,
                                  !.idx = b.idx + 1]]
    /\ UNCHANGED <<batch_vars, kg_vars, kg_available, embed_vars,
                   vector_vars, later_vars>>

\* thread c: build_or_update_graph returns its two lists
CallerBuildReturn(c) ==
    LET b == batches[c] IN
    /\ b.pc = "relationships"
    /\ b.idx > Len(b.relationships)
    /\ batches' = [batches EXCEPT ![c] = IdleBatch]
    /\ Called("build_or_update_graph", <<>>, "ok",
              [added_nodes |-> b.added_node_ids,
               added_edges |-> b.added_edge_ids])
    /\ UNCHANGED <<store_vars, batch_vars, kg_vars, kg_available,
                   embed_vars, vector_vars, later_vars>>

CallerBuildStartStep == \E c \in Callers : CallerBuildStart(c)
CallerAddEntityTurn == \E c \in Callers : CallerAddEntityStep(c)
CallerAddEntitiesDone == \E c \in Callers : CallerAddEntitiesReturn(c)
CallerAddRelationshipTurn == \E c \in Callers : CallerAddRelationshipStep(c)
CallerBuildDone == \E c \in Callers : CallerBuildReturn(c)

NextCallers ==
    \/ CallerBuildStartStep
    \/ CallerAddEntityTurn
    \/ CallerAddEntitiesDone
    \/ CallerAddRelationshipTurn
    \/ CallerBuildDone

SpecCallers == InitCallers /\ [][NextCallers]_vars

\* ------------------------------------------------------ embedding_store.py
\* A vector (a list of floats) is named by a string; "" names the empty
\* list, the one vector that is falsy.

\* d.get(k, default)
GetOr(d, k, default) == IF k \in DOMAIN d THEN d[k] ELSE default

\* the attribute keys of the model, in the order sort_keys=True puts them
AttrKeyOrder == <<"k1", "k2">>

\* An 'attributes' value: a dict, which keeps the order its keys were
\* inserted in, is the sequence of its (key, value) pairs; None is
\* NullAttributes.
AttrDict(pairs) == [items |-> pairs]
NullAttributes == [null |-> TRUE]

KeyRank(k) == CHOOSE i \in DOMAIN AttrKeyOrder : AttrKeyOrder[i] = k

\* one pair put at its place in a list of pairs sorted by key
RECURSIVE InsertSorted(_, _)
InsertSorted(sorted, pair) ==
    IF sorted = <<>> THEN <<pair>>
    ELSE IF KeyRank(pair[1]) < KeyRank(sorted[1][1]) THEN <<pair>> \o sorted
    ELSE <<sorted[1]>> \o InsertSorted(Tail(sorted), pair)

\* json.dumps without sort_keys: the pairs in insertion order
insertion_order(items) == items

\* json.dumps(..., sort_keys=True): the pairs sorted by key
RECURSIVE sort_keys(_)
sort_keys(items) ==
    IF items = <<>> THEN <<>>
    ELSE InsertSorted(sort_keys(Tail(items)), Head(items))

JsonPair(pair) == "\"" \o pair[1] \o "\": \"" \o pair[2] \o "\""

RECURSIVE JsonJoin(_)
JsonJoin(pairs) ==
    IF pairs = <<>> THEN ""
    ELSE IF Len(pairs) = 1 THEN JsonPair(pairs[1])
    ELSE JsonPair(pairs[1]) \o ", " \o JsonJoin(Tail(pairs))

\* json.dumps(m, sort_keys=True) of a dict from strings to strings
JsonDumps(m) == "{" \o JsonJoin(sort_keys(m.items)) \o "}"

\* line 133: relationship.get("attributes") is truthy
attributes_truthy(record) ==
    /\ "attributes" \in DOMAIN record
    /\ "items" \in DOMAIN record["attributes"]
    /\ record["attributes"].items # <<>>

\* the test of line 110 made a test for a non-empty dict
attributes_not_empty(record) ==
    /\ "attributes" \in DOMAIN record
    /\ "items" \in DOMAIN record["attributes"]
    /\ record["attributes"].items # <<>>

\* line 110: entity.get("attributes") is not None
attributes_not_none(record) ==
    /\ "attributes" \in DOMAIN record
    /\ "items" \in DOMAIN record["attributes"]

\* _create_entity_description: the exception it raises, "ok" if none
EntityDescriptionError(entity) ==
    IF IsDict(entity) THEN "ok" ELSE "AttributeError"

\* _create_entity_description
create_entity_description(entity) ==
    LET description ==
            "Entity: " \o GetOr(entity, "text", "Unnamed Entity")
            \o " (Type: " \o GetOr(entity, "label", "Unknown") \o ")"
    IN  IF attributes_not_none(entity)
        THEN description \o "\nAttributes: "
             \o JsonDumps(entity["attributes"])
        ELSE description

\* _create_relationship_description: the exception it raises, "ok" if none
RelationshipDescriptionError(relationship) ==
    IF ~IsDict(relationship) THEN "TypeError"
    ELSE IF "source_entity_id" \notin DOMAIN relationship THEN "KeyError"
    ELSE IF "target_entity_id" \notin DOMAIN relationship THEN "KeyError"
    ELSE "ok"

\* lines 120-126: the text of the entity the map holds under id, or the
\* placeholder when the map holds none (or an empty one)
EndpointText(entities_map, id, placeholder) ==
    IF id \in DOMAIN entities_map /\ DOMAIN entities_map[id] # {}
    THEN GetOr(entities_map[id], "text", placeholder)
    ELSE placeholder

\* _create_relationship_description
create_relationship_description(relationship, entities_map) ==
    LET source_entity_text ==
            EndpointText(entities_map, relationship["source_entity_id"],
                         "Unknown Source Entity")
        target_entity_text ==
            EndpointText(entities_map, relationship["target_entity_id"],
                         "Unknown Target Entity")
        description ==
            "Relationship: '" \o source_entity_text \o "' "
            \o GetOr(relationship, "label", "RELATED_TO")
            \o " '" \o target_entity_text \o "'. (ID: "
            \o Get(relationship, "id") \o ")"
    IN  IF attributes_truthy(relationship)
        THEN description \o "\nAttributes: "
             \o JsonDumps(relationship["attributes"])
        ELSE description

\* store_embeddings, lines 176-178: a map that is None or empty is {}
entities_map_or_empty(entities_map) ==
    IF IsDict(entities_map) /\ DOMAIN entities_map # {} THEN entities_map
    ELSE <<>>

\* MockEmbeddingModel.embed: the zero vector for a blank text, else a
\* vector computed from the text's hash
embed(text) == IF text = "" THEN "zeros" ELSE "hash(" \o text \o ")"

\* MockEmbeddingModel.embed_batch
embed_batch(texts) == [i \in DOMAIN texts |-> embed(texts[i])]

\* the record id without the kind prefix
ItemIdUnprefixed(prefix, id) == id

\* the f-strings of lines 164 and 186
ItemId(prefix, id) == prefix \o id

\* line 164: f"entity_{entity['id']}"
EntityItemId(id) == ItemId("entity_", id)

\* line 186: f"relationship_{rel['id']}"
RelationshipItemId(id) == ItemId("relationship_", id)

\* lines 163-168: the record of one entity
EntityItem(entity, text_desc, vector) ==
    [id |-> EntityItemId(entity["id"]),
     text_description |-> text_desc,
     vector |-> vector,
     metadata |-> [type |-> "entity", original_id |-> entity["id"],
                   label |-> Get(entity, "label")]]

\* lines 185-196: the record of one relationship
RelationshipItem(rel, text_desc, vector) ==
    [id |-> RelationshipItemId(rel["id"]),
     text_description |-> text_desc,
     vector |-> vector,
     metadata |-> [type |-> "relationship", original_id |-> rel["id"],
                   label |-> Get(rel, "label"),
                   source_id |-> Get(rel, "source_entity_id"),
                   target_id |-> Get(rel, "target_entity_id")]]

Min(a, b) == IF a <= b THEN a ELSE b

\* the loops going on to the next item after one without 'id'
RECURSIVE AssembleSkipping(_, _, _, _, _)
AssembleSkipping(kind, records, texts, vectors, i) ==
    IF i > Len(records) \/ i > Len(texts) \/ i > Len(vectors) THEN <<>>
    ELSE IF "id" \notin DOMAIN records[i]
    THEN AssembleSkipping(kind, records, texts, vectors, i + 1)
    ELSE <<IF kind = "entity"
           THEN EntityItem(records[i], texts[i], vectors[i])
           ELSE RelationshipItem(records[i], texts[i], vectors[i])>>
         \o AssembleSkipping(kind, records, texts, vectors, i + 1)

\* the loops of lines 162-169 and 184-197 from index i on: one record per
\* zipped triple, until the first item without 'id' (the KeyError leaves
\* the loop and is caught at line 170 or 198)
RECURSIVE Assemble(_, _, _, _, _)
Assemble(kind, records, texts, vectors, i) ==
    IF i > Min(Len(records), Min(Len(texts), Len(vectors))) THEN <<>>
    ELSE IF "id" \notin DOMAIN records[i] THEN <<>>
    ELSE <<IF kind = "entity"
           THEN EntityItem(records[i], texts[i], vectors[i])
           ELSE RelationshipItem(records[i], texts[i], vectors[i])>>
         \o Assemble(kind, records, texts, vectors, i + 1)

\* add_item inserting a further record when the id is already stored
add_item_inserting(store, item) ==
    Put(store,
        IF item["id"] \in DOMAIN store THEN item["id"] \o "#2"
        ELSE item["id"],
        [text_description |-> item["text_description"],
         vector |-> item["vector"],
         metadata |-> GetOr(item, "metadata", <<>>)])

\* MockVectorDBClient.add_item, lines 68-72
add_item(store, item) ==
    Put(store, item["id"],
        [text_description |-> item["text_description"],
         vector |-> item["vector"],
         metadata |-> GetOr(item, "metadata", <<>>)])

\* MockVectorDBClient.add_items from index i on: [raised, store]
RECURSIVE add_items_from(_, _, _)
add_items_from(store, items, i) ==
    IF i > Len(items) THEN [raised |-> "ok", store |-> store]
    ELSE IF ~IsDict(items[i])
    THEN [raised |-> "AttributeError", store |-> store]
    ELSE IF \/ ~Truthy(Get(items[i], "id"))
            \/ ~Truthy(Get(items[i], "text_description"))
            \/ ~Truthy(Get(items[i], "vector"))
    THEN add_items_from(store, items, i + 1)
    ELSE add_items_from(add_item(store, items[i]), items, i + 1)

\* add_items replacing the collection by the list's records
add_items_replacing(store, items) == add_items_from(<<>>, items, 1)

\* MockVectorDBClient.add_items
add_items(store, items) == add_items_from(store, items, 1)

\* MockVectorDBClient.get_item
get_item(store, item_id) == Get(store, item_id)

\* MockVectorDBClient.get_collection_size
get_collection_size(store) == DictLen(store)

\* -------------------------------------------------------- store_embeddings
EmbedEntityInputs ==
    {[id |-> "x1", text |-> "A", label |-> "PERSON"], [text |-> "B"],
     NotADict}

EmbedRelationshipInputs ==
    {[id |-> "x1", source_entity_id |-> "x1", target_entity_id |-> "x2",
      label |-> "WORKS_AT"],
     [id |-> "r2", source_entity_id |-> "x2", target_entity_id |-> "x1"],
     [source_entity_id |-> "x1", target_entity_id |-> "x1"],
     [id |-> "r3", source_entity_id |-> "x1"]}

EmbedMapInputs == {<<>>, [x1 |-> [id |-> "x1", text |-> "A"]]}

\* store_embeddings(entities, relationships, entities_map_for_relationships)
\* has been called.  An argument that is None and one that is empty take
\* the same branch at lines 157, 175 and 176: both are <<>> here.
InitEmbed ==
    /\ nodes = <<>>
    /\ edges = <<>>
    /\ temp_node_ids = {}
    /\ pc = "idle"
    /\ entities = <<>>
    /\ relationships = <<>>
    /\ idx = 1
    /\ added_node_ids = <<>>
    /\ added_edge_ids = <<>>
    /\ calls = <<>>
    /\ last = NoCall
    /\ DescribeIdle
    /\ BuilderIdle
    /\ kg_pc = "idle"
    /\ kg_entities = <<>>
    /\ kg_relations = <<>>
    /\ kg_idx = 1
    /\ graph = [nodes |-> <<>>, edges |-> <<>>]
    /\ kg_available = TRUE
    /\ batches = <<>>
    /\ embedding_model_client \in BOOLEAN
    /\ vector_db_client \in BOOLEAN
    /\ es_pc = "called"
    /\ es_entities \in SeqsUpTo(EmbedEntityInputs, MaxEmbedBatch)
    /\ es_relationships \in SeqsUpTo(EmbedRelationshipInputs, MaxEmbedBatch)
    /\ entities_map_for_relationships \in EmbedMapInputs
    /\ items_to_add_to_db = <<>>
    /\ entities_processed_count = 0
    /\ relationships_processed_count = 0
    /\ es_calls = <<>>
    /\ es_result = [raised |-> "ok", ret |-> None]
    /\ VectorIdle

\* the test of line 148 with `and` for `or`
clients_both_missing == ~embedding_model_client /\ ~vector_db_client

\* line 148: `not embedding_model_client or not vector_db_client`
clients_missing == ~embedding_model_client \/ ~vector_db_client

\* the dict a call of store_embeddings returns (lines 150 and 209)
ProcessedCounts(e, r) ==
    [entities_processed |-> e, relationships_processed |-> r]

\* the store_embeddings call ends: es_result says how
EmbedEnds(raised, ret) ==
    /\ es_pc' = "returned"
    /\ es_result' = [raised |-> raised, ret |-> ret]

\* the first exception in a list of per-item outcomes, "ok" if there is
\* none: a list comprehension stops at the first item that raises
FirstError(errors) ==
    IF \A i \in DOMAIN errors : errors[i] = "ok" THEN "ok"
    ELSE errors[CHOOSE i \in DOMAIN errors :
                   /\ errors[i] # "ok"
                   /\ \A j \in 1..(i - 1) : errors[j] = "ok"]

\* the record of an embed_batch call: the texts it was handed, and the
\* vectors it returned unless it raised
EmbedBatchCall(kind, texts, raised) ==
    [op |-> "embed_batch", kind |-> kind, raised |-> raised,
     texts |-> texts,
     vectors |-> IF raised = "ok" THEN embed_batch(texts) ELSE <<>>]

\* the count raised by the size of the input list
CountSubmitted(count, assembled, records) == count + Len(records)

\* lines 169 and 197: the count is raised by one per record appended
CountProcessed(count, assembled, records) == count + Len(assembled)

\* lines 148-150: a client is missing, the call returns zero counts
StoreEmbeddingsUnavailable ==
    /\ es_pc = "called"
    /\ clients_missing
    /\ EmbedEnds("ok", ProcessedCounts(0, 0))
    /\ UNCHANGED <<embedding_model_client, vector_db_client, es_entities,
                   es_relationships, entities_map_for_relationships,
                   items_to_add_to_db, entities_processed_count,
                   relationships_processed_count, es_calls>>
    /\ UNCHANGED <<store_vars, batch_vars, last, kg_vars, kg_available,
                   batches, vector_vars, later_vars>>

\* lines 152-171: the entities are described, embedded in one embed_batch
\* call that returns the vectors or raises, and assembled into records
ProcessEntities ==
    /\ es_pc = "called"
    /\ ~clients_missing
    /\ LET err == FirstError([i \in DOMAIN es_entities |->
                                 EntityDescriptionError(es_entities[i])])
           entity_texts ==
               [i \in DOMAIN es_entities |->
                   create_entity_description(es_entities[i])]
       IN  IF es_entities = <<>>
           THEN /\ es_pc' = "relationships"
                /\ UNCHANGED <<items_to_add_to_db, entities_processed_count,
                               es_calls, es_result>>
           ELSE IF err # "ok"
           THEN /\ EmbedEnds(err, None)
                /\ UNCHANGED <<items_to_add_to_db, entities_processed_count,
                               es_calls>>
           ELSE \E raised \in {"ok", "Exception"} :
                  LET assembled ==
                        IF raised = "ok"
                        THEN Assemble("entity", es_entities, entity_texts,
                                      embed_batch(entity_texts), 1)
                        ELSE <<>>
                  IN  /\ es_calls' =
                            Append(es_calls,
                                   EmbedBatchCall("entity", entity_texts,
                                                  raised))
                      /\ items_to_add_to_db' =
                            items_to_add_to_db \o assembled
                      /\ entities_processed_count' =
                            CountProcessed(entities_processed_count,
                                           assembled, es_entities)
                      /\ es_pc' = "relationships"
                      /\ UNCHANGED es_result
    /\ UNCHANGED <<embedding_model_client, vector_db_client, es_entities,
                   es_relationships, entities_map_for_relationships,
                   relationships_processed_count>>
    /\ UNCHANGED <<store_vars, batch_vars, last, kg_vars, kg_available,
                   batches, vector_vars, later_vars>>

\* lines 174-199: the same for the relationships
ProcessRelationships ==
    /\ es_pc = "relationships"
    /\ LET err == FirstError([i \in DOMAIN es_relationships |->
                    RelationshipDescriptionError(es_relationships[i])])
           rel_texts ==
               [i \in DOMAIN es_relationships |->
                   create_relationship_description(
                       es_relationships[i],
                       entities_map_or_empty(
                           entities_map_for_relationships))]
       IN  IF es_relationships = <<>>
           THEN /\ es_pc' = "upsert"
                /\ UNCHANGED <<items_to_add_to_db,
                               relationships_processed_count, es_calls,
                               es_result>>
           ELSE IF err # "ok"
           THEN /\ EmbedEnds(err, None)
                /\ UNCHANGED <<items_to_add_to_db,
                               relationships_processed_count, es_calls>>
           ELSE \E raised \in {"ok", "Exception"} :
                  LET assembled ==
                        IF raised = "ok"
                        THEN Assemble("relationship", es_relationships,
                                      rel_texts, embed_batch(rel_texts), 1)
                        ELSE <<>>
                  IN  /\ es_calls' =
                            Append(es_calls,
                                   EmbedBatchCall("relationship", rel_texts,
                                                  raised))
                      /\ items_to_add_to_db' =
                            items_to_add_to_db \o assembled
                      /\ relationships_processed_count' =
                            CountProcessed(relationships_processed_count,
                                           assembled, es_relationships)
                      /\ es_pc' = "upsert"
                      /\ UNCHANGED es_result
    /\ UNCHANGED <<embedding_model_client, vector_db_client, es_entities,
                   es_relationships, entities_map_for_relationships,
                   entities_processed_count>>
    /\ UNCHANGED <<store_vars, batch_vars, last, kg_vars, kg_available,
                   batches, vector_vars, later_vars>>

\* the test of line 201 with the call made for an empty list too
UpsertAlways(items) == TRUE

\* line 201: `if items_to_add_to_db`
UpsertWanted(items) == items # <<>>

\* lines 201-207: one add_items call with all the records; it stores them,
\* or it raises and the exception is logged
UpsertItems ==
    /\ es_pc = "upsert"
    /\ IF UpsertWanted(items_to_add_to_db)
       THEN \/ LET o == add_items(vector_store, items_to_add_to_db)
               IN  /\ vector_store' = o.store
                   /\ es_calls' =
                        Append(es_calls, [op |-> "add_items",
                                          items |-> items_to_add_to_db,
                                          raised |-> o.raised])
            \/ /\ vector_store' = vector_store
               /\ es_calls' =
                    Append(es_calls, [op |-> "add_items",
                                      items |-> items_to_add_to_db,
                                      raised |-> "Exception"])
       ELSE UNCHANGED <<vector_store, es_calls>>
    /\ es_pc' = "return"
    /\ UNCHANGED <<embedding_model_client, vector_db_client, es_entities,
                   es_relationships, entities_map_for_relationships,
                   items_to_add_to_db, entities_processed_count,
                   relationships_processed_count, es_result>>
    /\ UNCHANGED <<store_vars, batch_vars, last, kg_vars, kg_available,
                   batches, replica_store, vs_first, vs_second, vs_step,
                   later_vars>>

\* the result with the counts of what add_items stored
CountsOfStored(e, r) ==
    IF \E i \in DOMAIN es_calls :
          es_calls[i].op = "add_items" /\ es_calls[i].raised # "ok"
    THEN ProcessedCounts(0, 0)
    ELSE ProcessedCounts(e, r)

\* line 209: the counts of the records assembled
CountsOfAssembled(e, r) == ProcessedCounts(e, r)

\* line 209: store_embeddings returns
StoreEmbeddingsReturn ==
    /\ es_pc = "return"
    /\ EmbedEnds("ok", CountsOfAssembled(entities_processed_count,
                                         relationships_processed_count))
    /\ UNCHANGED <<embedding_model_client, vector_db_client, es_entities,
                   es_relationships, entities_map_for_relationships,
                   items_to_add_to_db, entities_processed_count,
                   relationships_processed_count, es_calls>>
    /\ UNCHANGED <<store_vars, batch_vars, last, kg_vars, kg_available,
                   batches, vector_vars, later_vars>>

NextEmbed ==
    \/ StoreEmbeddingsUnavailable
    \/ ProcessEntities
    \/ ProcessRelationships
    \/ UpsertItems
    \/ StoreEmbeddingsReturn

SpecEmbed == InitEmbed /\ [][NextEmbed]_vars

\* ------------------------------------------ add_items on two vector stores
\* Two MockVectorDBClient instances are handed the same two lists of
\* records, the second instance in the opposite order; the first instance
\* is then handed its last list once more.
ItemInputs ==
    {[id |-> "x", text_description |-> "a", vector |-> "v1",
      metadata |-> [type |-> "entity"]],
     [id |-> "x", text_description |-> "b", vector |-> "v1"],
     [id |-> "y", text_description |-> "a", vector |-> "v1"],
     [id |-> "x", vector |-> "v1"],
     NotADict}

InitVector ==
    /\ nodes = <<>>
    /\ edges = <<>>
    /\ temp_node_ids = {}
    /\ pc = "idle"
    /\ entities = <<>>
    /\ relationships = <<>>
    /\ idx = 1
    /\ added_node_ids = <<>>
    /\ added_edge_ids = <<>>
    /\ calls = <<>>
    /\ last = NoCall
    /\ DescribeIdle
    /\ BuilderIdle
    /\ kg_pc = "idle"
    /\ kg_entities = <<>>
    /\ kg_relations = <<>>
    /\ kg_idx = 1
    /\ graph = [nodes |-> <<>>, edges |-> <<>>]
    /\ kg_available = TRUE
    /\ batches = <<>>
    /\ EmbedIdle
    /\ vector_store = <<>>
    /\ replica_store = <<>>
    /\ vs_first \in SeqsUpTo(ItemInputs, MaxItems)
    /\ vs_second \in SeqsUpTo(ItemInputs, MaxItems)
    /\ vs_step = 0

\* add_items(items) on the first instance, add_items(other) on the second
AddItemsTo(items, other) ==
    LET o == add_items(vector_store, items)
    IN  /\ vector_store' = o.store
        /\ replica_store' = add_items(replica_store, other).store
        /\ Called("add_items", items, o.raised, None)
        /\ vs_step' = vs_step + 1
        /\ UNCHANGED <<vs_first, vs_second>>
        /\ UNCHANGED <<store_vars, batch_vars, kg_vars, kg_available,
                       batches, embed_vars, later_vars>>

\* the first call of each instance
AddItemsFirst ==
    /\ vs_step = 0
    /\ AddItemsTo(vs_first, vs_second)

\* the second call of each instance
AddItemsSecond ==
    /\ vs_step = 1
    /\ AddItemsTo(vs_second, vs_first)

\* the first instance's second call is made again
AddItemsRetry ==
    /\ vs_step = 2
    /\ AddItemsTo(vs_second, <<>>)

NextVector ==
    \/ AddItemsFirst
    \/ AddItemsSecond
    \/ AddItemsRetry

SpecVector == InitVector /\ [][NextVector]_vars

\* ------------------------------------------- the description functions
AttributeInputs ==
    {NullAttributes, AttrDict(<<>>), AttrDict(<<<<"k1", "v1">>>>),
     AttrDict(<<<<"k1", "v1">>, <<"k2", "v2">>>>),
     AttrDict(<<<<"k2", "v2">>, <<"k1", "v1">>>>)}

\* the record without 'attributes', and with each of the values
WithAttributes(record) ==
    {record} \cup {record @@ [attributes |-> a] : a \in AttributeInputs}

DescribeEntityInputs ==
    UNION {WithAttributes(e) :
             e \in {[id |-> "x1", text |-> "A", label |-> "PERSON"],
                    [id |-> "x2"]}}
    \cup {NotADict}

DescribeRelationshipInputs ==
    UNION {WithAttributes(r) :
             r \in {[id |-> "r1", source_entity_id |-> "x1",
                     target_entity_id |-> "x2", label |-> "WORKS_FOR"],
                    [id |-> "r2", source_entity_id |-> "x2",
                     target_entity_id |-> "x1"],
                    [source_entity_id |-> "x1", target_entity_id |-> "x1"],
                    [id |-> "r3", source_entity_id |-> "x1"]}}
    \cup {NotADict}

\* the maps store_embeddings may be handed: None, {}, and maps that hold
\* some of the entities, one of them without 'text', one of them empty
DescribeMapInputs ==
    {NotADict, <<>>,
     [x1 |-> [id |-> "x1", text |-> "A"]],
     [x1 |-> [id |-> "x1"]],
     [x1 |-> <<>>],
     [x1 |-> [id |-> "x1", text |-> "A"],
      x2 |-> [id |-> "x2", text |-> "B"]]}

\* the records that differ from the record in nothing but the order in
\* which the keys of its 'attributes' were inserted
Reorderings(record) ==
    IF IsDict(record) /\ attributes_not_none(record)
    THEN LET items == record["attributes"].items
         IN  {[record EXCEPT !["attributes"] =
                 AttrDict([i \in DOMAIN items |-> items[p[i]]])] :
              p \in Permutations(DOMAIN items)}
    ELSE {record}

NotDescribed == [raised |-> "pending"]

InitDescribe ==
    /\ nodes = <<>>
    /\ edges = <<>>
    /\ temp_node_ids = {}
    /\ pc = "idle"
    /\ entities = <<>>
    /\ relationships = <<>>
    /\ idx = 1
    /\ added_node_ids = <<>>
    /\ added_edge_ids = <<>>
    /\ calls = <<>>
    /\ last = NoCall
    /\ kg_pc = "idle"
    /\ kg_entities = <<>>
    /\ kg_relations = <<>>
    /\ kg_idx = 1
    /\ graph = [nodes |-> <<>>, edges |-> <<>>]
    /\ kg_available = TRUE
    /\ batches = <<>>
    /\ EmbedIdle
    /\ VectorIdle
    /\ BuilderIdle
    /\ desc_kind \in {"entity", "relationship"}
    /\ desc_record \in IF desc_kind = "entity" THEN DescribeEntityInputs
                       ELSE DescribeRelationshipInputs
    /\ desc_twin \in Reorderings(desc_record)
    /\ desc_map \in IF desc_kind = "entity" THEN {<<>>}
                    ELSE DescribeMapInputs
    /\ desc_out = NotDescribed

\* _create_entity_description(entity), as line 159 calls it, applied to
\* the record and to its twin
DescribeEntity ==
    /\ desc_kind = "entity"
    /\ desc_out.raised = "pending"
    /\ desc_out' =
         IF EntityDescriptionError(desc_record) = "ok"
         THEN [raised |-> "ok",
               description |-> create_entity_description(desc_record),
               twin_description |-> create_entity_description(desc_twin)]
         ELSE [raised |-> EntityDescriptionError(desc_record),
               description |-> None, twin_description |-> None]
    /\ UNCHANGED <<desc_kind, desc_record, desc_twin, desc_map>>
    /\ UNCHANGED <<store_vars, batch_vars, last, kg_vars, kg_available,
                   batches, embed_vars, vector_vars, builder_vars>>

\* lines 176-181: the map is made a dict, then
\* _create_relationship_description(rel, map) is applied to the record
\* and to its twin
DescribeRelationship ==
    /\ desc_kind = "relationship"
    /\ desc_out.raised = "pending"
    /\ desc_out' =
         LET entities_map == entities_map_or_empty(desc_map) IN
         IF RelationshipDescriptionError(desc_record) = "ok"
         THEN [raised |-> "ok",
               description |->
                   create_relationship_description(desc_record,
                                                   entities_map),
               twin_description |->
                   create_relationship_description(desc_twin,
                                                   entities_map)]
         ELSE [raised |-> RelationshipDescriptionError(desc_record),
               description |-> None, twin_description |-> None]
    /\ UNCHANGED <<desc_kind, desc_record, desc_twin, desc_map>>
    /\ UNCHANGED <<store_vars, batch_vars, last, kg_vars, kg_available,
                   batches, embed_vars, vector_vars, builder_vars>>

NextDescribe ==
    \/ DescribeEntity
    \/ DescribeRelationship

SpecDescribe == InitDescribe /\ [][NextDescribe]_vars

\* ---------------------------------------------------- src/graph_builder.py
\* A node of the DiGraph is an integer or a string: IntNode(n), StrNode(s).
\* The graph is [nodes, edges]: nodes maps a node to its attribute dict,
\* edges is the set of <<from, to>>.
IntNode(n) == [int |-> n]
StrNode(s) == [str |-> s]
IsIntNode(node) == "int" \in DOMAIN node

\* nx.DiGraph()
EmptyGraph == [nodes |-> <<>>, edges |-> {}]

\* graph.add_node(node, **attrs)
nx_add_node(g, node, attrs) ==
    [g EXCEPT !.nodes =
        Put(g.nodes, node,
            IF node \in DOMAIN g.nodes THEN Update(g.nodes[node], attrs)
            ELSE attrs)]

\* add_nodes_from_text_chunks, lines 20-30, from chunk i on
RECURSIVE add_nodes_from(_, _, _, _, _)
add_nodes_from(g, counter, text_chunks, i, ids) ==
    IF i > Len(text_chunks)
    THEN [graph |-> g, node_counter |-> counter, node_ids |-> ids]
    ELSE add_nodes_from(
             nx_add_node(g, IntNode(counter),
                         [text |-> text_chunks[i],
                          label |-> "Chunk " \o ToString(counter)]),
             counter + 1, text_chunks, i + 1, Append(ids, counter))

\* GraphBuilder.add_nodes_from_text_chunks
add_nodes_from_text_chunks(g, counter, text_chunks) ==
    add_nodes_from(g, counter, text_chunks, 1, <<>>)

\* add_sequential_edges, lines 42-50, from index i on
RECURSIVE add_sequential_edges_from(_, _, _)
add_sequential_edges_from(g, ids, i) ==
    IF i > Len(ids) - 1 THEN g
    ELSE add_sequential_edges_from(
             IF /\ IntNode(ids[i]) \in DOMAIN g.nodes
                /\ IntNode(ids[i + 1]) \in DOMAIN g.nodes
             THEN [g EXCEPT !.edges =
                      g.edges \cup {<<IntNode(ids[i]), IntNode(ids[i + 1])>>}]
             ELSE g,
             ids, i + 1)

\* GraphBuilder.add_sequential_edges
add_sequential_edges(g, ids) == add_sequential_edges_from(g, ids, 1)

\* A GML file is [readable |-> FALSE] when there is none at the path or
\* it holds no GML; else it holds node blocks [id, label, text] and edges
\* <<source id, target id>>.
NoGml == [readable |-> FALSE]

\* nx.write_gml writes each node's name as its label, in quotes whether
\* the name is an integer or a string
GmlLabel(node) == IF IsIntNode(node) THEN ToString(node.int) ELSE node.str

\* nx.write_gml(graph, file_path): a node's own 'label' attribute is not
\* written, its other attributes are
write_gml(g) ==
    [readable |-> TRUE,
     nodes |-> {[id |-> n, label |-> StrNode(GmlLabel(n)),
                 text |-> g.nodes[n]["text"]] : n \in DOMAIN g.nodes},
     edges |-> g.edges]

\* nx.read_gml raises: nothing to parse, or a label used by two nodes
read_gml_raises(file) ==
    \/ ~file.readable
    \/ \E a \in file.nodes, b \in file.nodes : a.label = b.label /\ a # b

\* nx.read_gml(file_path, label='label'): the nodes named by their labels
read_gml(file) ==
    LET block(id) == CHOOSE x \in file.nodes : x.id = id
        named(l)  == CHOOSE x \in file.nodes : x.label = l
    IN  [nodes |-> [l \in {x.label : x \in file.nodes} |->
                       [text |-> named(l).text]],
         edges |-> {<<block(e[1]).label, block(e[2]).label>> :
                      e \in file.edges}]

\* int(node_str_id), lines 105: the integers the node parses as, none
\* when int() raises ValueError; int() takes digits with blanks around
ParsedInt(node) ==
    IF IsIntNode(node) THEN {node.int}
    ELSE {k \in 0..MaxCounter :
            node.str = ToString(k) \/ node.str = " " \o ToString(k)}

\* lines 91-113: parsed_ids, as a set
parsed_ids(g) == UNION {ParsedInt(n) : n \in DOMAIN g.nodes}

\* lines 91-108: max_id
max_id(g) ==
    IF parsed_ids(g) = {} THEN -1
    ELSE CHOOSE m \in parsed_ids(g) : \A k \in parsed_ids(g) : k <= m

\* lines 116-121: nx.relabel_nodes(graph, {str(nid): nid}) when an id was
\* parsed and a node is a string
relabel_parsed(g) ==
    LET renamed(n) ==
            IF ~IsIntNode(n) /\ \E k \in parsed_ids(g) : n.str = ToString(k)
            THEN IntNode(CHOOSE k \in parsed_ids(g) : n.str = ToString(k))
            ELSE n
        source(m) == CHOOSE n \in DOMAIN g.nodes : renamed(n) = m
    IN  IF parsed_ids(g) # {} /\ \E n \in DOMAIN g.nodes : ~IsIntNode(n)
        THEN [nodes |-> [m \in {renamed(n) : n \in DOMAIN g.nodes} |->
                            g.nodes[source(m)]],
              edges |-> {<<renamed(e[1]), renamed(e[2])>> : e \in g.edges}]
        ELSE g

\* the counter set to the highest parsed id itself
counter_at_max_id(max) == IF max # -1 THEN max ELSE 0

\* line 124: max_id + 1 if max_id != -1 else 0
counter_after_load(max) == IF max # -1 THEN max + 1 ELSE 0

\* GraphBuilder.load_graph_gml: [graph, node_counter]
load_graph_gml(file) ==
    IF read_gml_raises(file)
    THEN [graph |-> EmptyGraph, node_counter |-> 0]
    ELSE [graph |-> relabel_parsed(read_gml(file)),
          node_counter |-> counter_after_load(max_id(read_gml(file)))]

\* the chunk lists handed in: none, one chunk, several with a repeated text
ChunkLists ==
    {chunks \in {<<>>, <<"A">>, <<"B", "A">>, <<"A", "B", "A">>,
                 <<"B", "A", "B", "A">>} : Len(chunks) <= MaxChunks}

\* files another program left at the path: a node named by a string that
\* is no number beside one that is, a label with a blank before its
\* digits, an integer label beside a string one, one label on two nodes
GmlInputs ==
    {NoGml,
     [readable |-> TRUE,
      nodes |-> {[id |-> IntNode(0), label |-> StrNode("n0"), text |-> "A"],
                 [id |-> IntNode(1), label |-> StrNode("1"), text |-> "B"]},
      edges |-> {<<IntNode(0), IntNode(1)>>}],
     [readable |-> TRUE,
      nodes |-> {[id |-> IntNode(0), label |-> StrNode(" 2"), text |-> "A"]},
      edges |-> {}],
     [readable |-> TRUE,
      nodes |-> {[id |-> IntNode(0), label |-> IntNode(3), text |-> "A"],
                 [id |-> IntNode(1), label |-> StrNode("0"), text |-> "B"]},
      edges |-> {}],
     [readable |-> TRUE,
      nodes |-> {[id |-> IntNode(0), label |-> StrNode("0"), text |-> "A"],
                 [id |-> IntNode(1), label |-> StrNode("0"), text |-> "B"]},
      edges |-> {}]}

\* a new GraphBuilder; the file at the path is any of the inputs
InitBuilder ==
    /\ nodes = <<>>
    /\ edges = <<>>
    /\ temp_node_ids = {}
    /\ pc = "idle"
    /\ entities = <<>>
    /\ relationships = <<>>
    /\ idx = 1
    /\ added_node_ids = <<>>
    /\ added_edge_ids = <<>>
    /\ calls = <<>>
    /\ last = NoCall
    /\ kg_pc = "idle"
    /\ kg_entities = <<>>
    /\ kg_relations = <<>>
    /\ kg_idx = 1
    /\ graph = [nodes |-> <<>>, edges |-> <<>>]
    /\ kg_available = TRUE
    /\ batches = <<>>
    /\ EmbedIdle
    /\ VectorIdle
    /\ DescribeIdle
    /\ gb_graph = EmptyGraph
    /\ node_counter = 0
    /\ gml_file \in GmlInputs
    /\ node_ids = <<>>

\* builder.add_nodes_from_text_chunks(text_chunks)
AddNodesFromTextChunks ==
    /\ \E text_chunks \in ChunkLists :
          LET o == add_nodes_from_text_chunks(gb_graph, node_counter,
                                              text_chunks)
          IN  /\ o.node_counter <= MaxCounter
              /\ gb_graph' = o.graph
              /\ node_counter' = o.node_counter
              /\ node_ids' = o.node_ids
              /\ Called("add_nodes_from_text_chunks", text_chunks, "ok",
                        o.node_ids)
    /\ UNCHANGED gml_file
    /\ UNCHANGED <<store_vars, batch_vars, kg_vars, kg_available, batches,
                   embed_vars, vector_vars, describe_vars>>

\* builder.add_sequential_edges(node_ids), with the ids last returned
AddSequentialEdges ==
    /\ gb_graph' = add_sequential_edges(gb_graph, node_ids)
    /\ Called("add_sequential_edges", node_ids, "ok", None)
    /\ UNCHANGED <<node_counter, gml_file, node_ids>>
    /\ UNCHANGED <<store_vars, batch_vars, kg_vars, kg_available, batches,
                   embed_vars, vector_vars, describe_vars>>

\* builder.save_graph_gml(file_path)
SaveGraphGml ==
    /\ gml_file' = write_gml(gb_graph)
    /\ Called("save_graph_gml", <<>>, "ok", None)
    /\ UNCHANGED <<gb_graph, node_counter, node_ids>>
    /\ UNCHANGED <<store_vars, batch_vars, kg_vars, kg_available, batches,
                   embed_vars, vector_vars, describe_vars>>

\* builder.load_graph_gml(file_path)
LoadGraphGml ==
    /\ gb_graph' = load_graph_gml(gml_file).graph
    /\ node_counter' = load_graph_gml(gml_file).node_counter
    /\ Called("load_graph_gml", <<>>, "ok", None)
    /\ UNCHANGED <<gml_file, node_ids>>
    /\ UNCHANGED <<store_vars, batch_vars, kg_vars, kg_available, batches,
                   embed_vars, vector_vars, describe_vars>>

\* another program writes the file at the path, or removes it
FileReplaced ==
    /\ \E file \in GmlInputs : gml_file' = file
    /\ Called("file_replaced", <<>>, "ok", None)
    /\ UNCHANGED <<gb_graph, node_counter, node_ids>>
    /\ UNCHANGED <<store_vars, batch_vars, kg_vars, kg_available, batches,
                   embed_vars, vector_vars, describe_vars>>

NextBuilder ==
    \/ AddNodesFromTextChunks
    \/ AddSequentialEdges
    \/ SaveGraphGml
    \/ LoadGraphGml
    \/ FileReplaced

SpecBuilder == InitBuilder /\ [][NextBuilder]_vars

\* ------------------------------------------------------------ properties
Range(q) == {q[i] : i \in DOMAIN q}

\* the returns of the successful calls of one operation, in call order
OkRets(log, op) ==
    LET ok(c) == c.op = op /\ c.raised = "ok"
        sel   == SelectSeq(log, ok)
    IN  [i \in DOMAIN sel |-> sel[i].ret]

CountCalls(log, op) == LET is(c) == c.op = op IN Len(SelectSeq(log, is))

\* a step that ends a store call on a dict without a usable id
GeneratedIdCall(op) ==
    /\ last'.op = op
    /\ last'.raised = "ok"
    /\ ~Truthy(Get(last'.arg, "id"))

\* C1: in every reachable state each stored edge's source_entity_id and
\* target_entity_id are ids of stored nodes.
C1_EdgeEndpointsStored ==
    \A e \in DOMAIN edges :
        /\ Get(edges[e], "source_entity_id") \in DOMAIN nodes
        /\ Get(edges[e], "target_entity_id") \in DOMAIN nodes

\* an edge between two different stored nodes, in a session that has been
\* cleared since its endpoints were added
C1_Witness ==
    /\ temp_node_ids = {}
    /\ \E e \in DOMAIN edges :
          edges[e]["source_entity_id"] # edges[e]["target_entity_id"]

\* C2: an add_edge call on a relationship one of whose endpoints is neither
\* a stored node id nor in the session's touched set ends with an error and
\* leaves the edge table exactly as it was.
C2_RejectedEdgeLeavesEdges ==
    [][ ( /\ last'.op = "add_edge"
          /\ IsDict(last'.arg)
          /\ \/ ~EndpointKnown(Store, Get(last'.arg, "source_entity_id"))
             \/ ~EndpointKnown(Store, Get(last'.arg, "target_entity_id")) )
        => (last'.raised # "ok" /\ edges' = edges) ]_vars

\* a rejected add_edge whose id is the id of an edge already stored
C2_Witness ==
    /\ last.op = "add_edge"
    /\ last.raised = "ValueError"
    /\ Get(last.arg, "id") \in DOMAIN edges

C7_GeneratedIdIsFresh ==
    [][ /\ GeneratedIdCall("add_node")
           => /\ last'.ret \notin DOMAIN nodes
              /\ DictLen(nodes') = DictLen(nodes) + 1
        /\ GeneratedIdCall("add_edge")
           => /\ last'.ret \notin DOMAIN edges
              /\ DictLen(edges') = DictLen(edges) + 1 ]_vars

\* C8: no node id and no edge id ever leaves the store.
C8_AppendOnly ==
    [][ /\ DOMAIN nodes \subseteq DOMAIN nodes'
        /\ DOMAIN edges \subseteq DOMAIN edges' ]_vars

\* the session has just been cleared on a store that holds nodes and edges
C8_Witness ==
    /\ last.op = "clear_session_tracking"
    /\ DictLen(nodes) >= 2
    /\ DOMAIN edges # {}

\* C9: a batch ends by returning, having called add_node once per entity
\* and add_edge once per relationship, with added_nodes and added_edges the
\* returns of the successful calls in call order.
C9_BatchAttemptsAllAndListsSuccesses ==
    [][ (pc # "idle" /\ pc' = "idle")
        => /\ last'.raised = "ok"
           /\ CountCalls(calls, "add_node") = Len(entities)
           /\ CountCalls(calls, "add_edge") = Len(relationships)
           /\ last'.ret.added_nodes = OkRets(calls, "add_node")
           /\ last'.ret.added_edges = OkRets(calls, "add_edge") ]_vars

\* C10: build_or_update_graph never ends by raising.
C10_BuildNeverRaises ==
    last.op = "build_or_update_graph" => last.raised = "ok"

\* the attributes map of a record, empty when the record has none
AttrsOf(rec) == IF "attributes" \in DOMAIN rec THEN rec["attributes"] ELSE <<>>

\* res has every key of new with new's value, and every other key of old
\* with old's value
MergedPerKey(old, new, res) ==
    /\ \A k \in DOMAIN new : k \in DOMAIN res /\ res[k] = new[k]
    /\ \A k \in DOMAIN old \ DOMAIN new : k \in DOMAIN res /\ res[k] = old[k]

\* a step that ends a successful call which upserts an id already stored
UpsertAgain(op, table) ==
    /\ last'.op = op
    /\ last'.raised = "ok"
    /\ last'.ret \in DOMAIN table

\* C4: a second add_node call with the same id and an equal payload returns
\* the same id and leaves the node table as the first call left it.
C4_AddNodeIdempotent ==
    [][ ( /\ last'.op = "add_node"
          /\ last'.repeat
          /\ last.raised = "ok"
          /\ Truthy(Get(last'.arg, "id")) )
        => /\ last'.raised = "ok"
           /\ last'.ret = last.ret
           /\ nodes' = nodes
           /\ DictLen(nodes') = DictLen(nodes) ]_vars

\* add_node has been called twice in a row with the same id and payload, a
\* payload that names fewer fields than the stored record has
C4_Witness ==
    /\ last.op = "add_node"
    /\ last.repeat
    /\ last.raised = "ok"
    /\ "attributes" \in DOMAIN last.arg
    /\ nodes[last.ret] # last.arg

KgProcessed ==
    IF kg_pc = "entities" THEN SubSeq(kg_entities, 1, kg_idx - 1)
    ELSE kg_entities

\* the positions of the processed entity dicts that name node n and carry a
\* text_chunk_id
TaggedAt(n) ==
    {i \in DOMAIN KgProcessed :
        /\ KgProcessed[i]["text"] = n
        /\ "text_chunk_id" \in DOMAIN KgProcessed[i]}

Max(S) == CHOOSE x \in S : \A y \in S : y <= x

KgRelationsProcessed ==
    IF kg_pc = "entities" THEN <<>>
    ELSE IF kg_pc = "relations" THEN SubSeq(kg_relations, 1, kg_idx - 1)
    ELSE kg_relations

\* the processed relation dicts from u to v, in order
RelationsBetween(u, v) ==
    LET between(r) == r["entity1_text"] = u /\ r["entity2_text"] = v
    IN  SelectSeq(KgRelationsProcessed, between)

C11_UnavailableReturnsEmpty ==
    [][~kg_available =>
          /\ last'.op = "build_or_update_graph"
          /\ last'.raised = "ok"
          /\ last'.ret = [added_nodes |-> <<>>, added_edges |-> <<>>]
          /\ pc' = "idle"
          /\ calls' = <<>>
          /\ UNCHANGED store_vars]_vars

\* build_or_update_graph has returned its empty lists on an unbound store
\* whose session set was not empty
C11_Witness ==
    /\ ~kg_available
    /\ last.op = "build_or_update_graph"
    /\ last.raised = "ok"
    /\ last.ret = [added_nodes |-> <<>>, added_edges |-> <<>>]
    /\ temp_node_ids # {}
    /\ DOMAIN edges # {}

\* the batch stands at the end of a loop: its next step calls no store
\* operation (it returns from add_entities_to_graph or from the batch)
AtLoopEnd(b) ==
    \/ b.pc = "entities" /\ b.idx > Len(b.entities)
    \/ b.pc = "relationships" /\ b.idx > Len(b.relationships)

\* C12: batches against one store are serialized: no thread's
\* clear_session_tracking, add_node or add_edge step runs while another
\* thread's batch is between its clear_session_tracking and its return.
C12_BatchesSerialized ==
    [][\A c \in Callers :
          (batches'[c] # batches[c] /\ ~AtLoopEnd(batches[c]))
          => \A d \in Callers \ {c} : batches[d].pc = "idle"]_vars

\* ---------------------------------------- properties of store_embeddings
\* the embed_batch call made for a kind ended the given way
EmbedCallEnded(kind, raised) ==
    \E i \in DOMAIN es_calls :
        /\ es_calls[i].op = "embed_batch"
        /\ es_calls[i].kind = kind
        /\ es_calls[i].raised = raised

\* the indices of the add_items calls made so far
UpsertCalls == {i \in DOMAIN es_calls : es_calls[i].op = "add_items"}

\* the records handed to add_items so far
Upserted ==
    IF UpsertCalls = {} THEN <<>>
    ELSE es_calls[CHOOSE i \in UpsertCalls : TRUE].items

\* how many records of a list are of the given kind
NumOfKind(items, kind) ==
    Cardinality({i \in DOMAIN items : items[i].metadata.type = kind})

\* store_embeddings has returned a result
EmbedReturned == es_pc = "returned" /\ es_result.raised = "ok"

\* C13: with the embedding model or the vector store (or both) missing,
\* store_embeddings makes no embed_batch and no add_items call, assembles
\* nothing, and returns entities_processed = 0 and
\* relationships_processed = 0 without an exception.
C13_ClientsMissingReturnsZero ==
    (~embedding_model_client \/ ~vector_db_client) =>
        /\ es_calls = <<>>
        /\ items_to_add_to_db = <<>>
        /\ vector_store = <<>>
        /\ es_pc \in {"called", "returned"}
        /\ es_pc = "returned" =>
              /\ es_result.raised = "ok"
              /\ es_result.ret = [entities_processed |-> 0,
                                  relationships_processed |-> 0]

\* store_embeddings has returned with only the vector store missing and
\* both lists given
C13_Witness ==
    /\ es_pc = "returned"
    /\ embedding_model_client
    /\ ~vector_db_client
    /\ Len(es_entities) = 2
    /\ Len(es_relationships) = 2

\* C14: when the embed_batch call of one kind raised and the other kind's
\* succeeded, the result counts 0 for the failed kind and the upsert holds
\* no record of it, while the other kind's count is the size of its input
\* list and the upsert holds that many records of it.
C14_FailedKindAlone ==
    EmbedReturned =>
        /\ (EmbedCallEnded("entity", "Exception")
             /\ EmbedCallEnded("relationship", "ok")) =>
              /\ es_result.ret.entities_processed = 0
              /\ NumOfKind(Upserted, "entity") = 0
              /\ es_result.ret.relationships_processed
                    = Len(es_relationships)
              /\ NumOfKind(Upserted, "relationship") = Len(es_relationships)
        /\ (EmbedCallEnded("relationship", "Exception")
             /\ EmbedCallEnded("entity", "ok")) =>
              /\ es_result.ret.relationships_processed = 0
              /\ NumOfKind(Upserted, "relationship") = 0
              /\ es_result.ret.entities_processed = Len(es_entities)
              /\ NumOfKind(Upserted, "entity") = Len(es_entities)

\* C15: whether add_items stored the records or raised, store_embeddings
\* returns without an exception, and its two counts are the numbers of
\* entity and of relationship records that were assembled from the
\* embeddings; when add_items raised the vector store holds nothing.
C15_CountsSurviveUpsertFailure ==
    (es_pc = "returned" /\ UpsertCalls # {}) =>
        /\ es_result.raised = "ok"
        /\ es_result.ret =
              [entities_processed |->
                   NumOfKind(items_to_add_to_db, "entity"),
               relationships_processed |->
                   NumOfKind(items_to_add_to_db, "relationship")]
        /\ (\E i \in UpsertCalls : es_calls[i].raised # "ok")
              => vector_store = <<>>

\* add_items raised and store_embeddings returned 2 and 1
C15_Witness ==
    /\ EmbedReturned
    /\ \E i \in UpsertCalls : es_calls[i].raised = "Exception"
    /\ es_result.ret = [entities_processed |-> 2,
                        relationships_processed |-> 1]
    /\ vector_store = <<>>

\* C16: a store_embeddings call makes at most one add_items call; that
\* call comes after every embed_batch call and is handed every assembled
\* record, the entities' and the relationships'; and once the upsert step
\* is past, the call was made exactly when a record had been assembled.
C16_SingleBulkUpsert ==
    /\ Cardinality(UpsertCalls) <= 1
    /\ \A i \in UpsertCalls :
          /\ i = Len(es_calls)
          /\ es_calls[i].items = items_to_add_to_db
          /\ es_calls[i].items # <<>>
          /\ NumOfKind(es_calls[i].items, "entity")
                = entities_processed_count
          /\ NumOfKind(es_calls[i].items, "relationship")
                = relationships_processed_count
    /\ (es_pc = "return" \/ EmbedReturned) =>
          (UpsertCalls = {} <=> items_to_add_to_db = <<>>)

\* one add_items call with an entity and a relationship record was made
\* after the two embed_batch calls
C16_Witness ==
    /\ EmbedReturned
    /\ Len(es_calls) = 3
    /\ es_calls[3].op = "add_items"
    /\ NumOfKind(es_calls[3].items, "entity") = 1
    /\ NumOfKind(es_calls[3].items, "relationship") = 2

\* both embed_batch calls raised and store_embeddings returned without an
\* add_items call
C16_WitnessNoUpsert ==
    /\ EmbedReturned
    /\ EmbedCallEnded("entity", "Exception")
    /\ EmbedCallEnded("relationship", "Exception")
    /\ UpsertCalls = {}

\* ids an entity or a relationship may carry, among them ids that look
\* like record ids
SampleIds == {"x1", "x2", "r2", "entity_x1", "relationship_x1", "_", ""}

\* add_items was called and did not raise
UpsertDone == \E i \in UpsertCalls : es_calls[i].raised = "ok"

\* the ids of the first n records of a list
LeadingIds(list, n) == {list[i]["id"] : i \in 1..n}

C18_StoreEmbeddingsNeverRaises ==
    es_pc = "returned" =>
        /\ es_result.raised = "ok"
        /\ DOMAIN es_result.ret
             = {"entities_processed", "relationships_processed"}

\* ------------------------------------------------ properties of add_items
\* add_items stores the record (lines 81-83 do not skip it)
ValidItem(item) ==
    /\ IsDict(item)
    /\ Truthy(Get(item, "id"))
    /\ Truthy(Get(item, "text_description"))
    /\ Truthy(Get(item, "vector"))

\* what the store keeps of a record
StoredForm(item) ==
    [text_description |-> item["text_description"],
     vector |-> item["vector"],
     metadata |-> IF "metadata" \in DOMAIN item THEN item["metadata"]
                  ELSE <<>>]

\* the valid records of a list
ValidItems(items) ==
    {items[i] : i \in {j \in DOMAIN items : ValidItem(items[j])}}

\* C19: add_items is idempotent by id: handing it the list it was just
\* handed leaves the store's contents and its collection size as they
\* were, and the call ends the way the first one did.
C19_UpsertIdempotent ==
    [][(vs_step = 2 /\ vs_step' = 3) =>
          /\ vector_store' = vector_store
          /\ get_collection_size(vector_store')
               = get_collection_size(vector_store)
          /\ last'.raised = last.raised]_vars

\* a list of two records under two ids, one of them stored before by the
\* other list, has been handed to add_items twice
C19_Witness ==
    /\ vs_step = 3
    /\ Cardinality(ValidItems(vs_second)) = 2
    /\ ValidItems(vs_first) # {}
    /\ get_collection_size(vector_store) = 2

\* C20: add_items is commutative: two lists of records handed to it in
\* either order leave the same store contents.
C20_UpsertCommutative ==
    vs_step = 2 => vector_store = replica_store

\* no id is given different records by the two lists
ListsAgree(first, second) ==
    \A a \in ValidItems(first), b \in ValidItems(second) :
        a["id"] = b["id"] => StoredForm(a) = StoredForm(b)

\* C20, amended: two lists of records in which any two valid records
\* under one id, one of each list, are equal leave the same store contents
\* in either order.
C20_UpsertCommutesWithoutConflict ==
    (vs_step = 2 /\ ListsAgree(vs_first, vs_second)) =>
        vector_store = replica_store

\* two different lists that share a record and agree were applied in both
\* orders
C20_Witness ==
    /\ vs_step = 2
    /\ ListsAgree(vs_first, vs_second)
    /\ ValidItems(vs_first) \cap ValidItems(vs_second) # {}
    /\ ValidItems(vs_first) # ValidItems(vs_second)
    /\ get_collection_size(vector_store) = 2

\* C21: description synthesis is deterministic in the logical input: two
\* entities, or two relationships, that are equal except for the order in
\* which their attribute keys were inserted get the same description
\* string (and end alike when the function raises).
C21_KeyOrderDoesNotShow ==
    desc_out.raised # "pending"
        => desc_out.description = desc_out.twin_description

\* two attribute keys inserted in two orders, and both records described
C21_Witness ==
    /\ desc_kind = "entity"
    /\ desc_out.raised = "ok"
    /\ "attributes" \in DOMAIN desc_record
    /\ "items" \in DOMAIN desc_record["attributes"]
    /\ desc_record["attributes"].items # desc_twin["attributes"].items
    /\ Len(desc_record["attributes"].items) = 2

\* the strings json.dumps(..., sort_keys=True) gives for the attribute
\* maps of the inputs
JsonTexts ==
    {"{}", "{\"k1\": \"v1\"}", "{\"k1\": \"v1\", \"k2\": \"v2\"}"}

AttributeBlocks == {"\nAttributes: " \o j : j \in JsonTexts}

\* the head of a relationship description around the two endpoint texts
RelationshipHead(source_text, target_text) ==
    "Relationship: '" \o source_text \o "' "
    \o (IF "label" \in DOMAIN desc_record THEN desc_record["label"]
        ELSE "RELATED_TO")
    \o " '" \o target_text \o "'. (ID: "
    \o (IF "id" \in DOMAIN desc_record THEN desc_record["id"] ELSE "None")
    \o ")"

EndpointTexts ==
    {"A", "B", "Unknown Source Entity", "Unknown Target Entity"}

\* the map holds nothing under the id: it is None, or empty, or lacks it
NotInMap(id) ==
    \/ "notadict" \in DOMAIN desc_map
    \/ id \notin DOMAIN desc_map

\* C22: resolving the endpoint texts of a relationship (a dict) never
\* raises; when
\* source_entity_id (target_entity_id) is no key of the entity lookup map,
\* or the map is None or empty, the description has 'Unknown Source
\* Entity' ('Unknown Target Entity') where the entity's text would stand.
C22_EndpointResolutionNeverRaises ==
    (/\ desc_kind = "relationship"
     /\ "notadict" \notin DOMAIN desc_record
     /\ desc_out.raised # "pending") =>
        /\ desc_out.raised = "ok"
        /\ NotInMap(desc_record["source_entity_id"]) =>
             \E t \in EndpointTexts, tail \in AttributeBlocks \cup {""} :
                desc_out.description =
                    RelationshipHead("Unknown Source Entity", t) \o tail
        /\ NotInMap(desc_record["target_entity_id"]) =>
             \E t \in EndpointTexts, tail \in AttributeBlocks \cup {""} :
                desc_out.description =
                    RelationshipHead(t, "Unknown Target Entity") \o tail

\* the head of the entity description of the record
EntityHead ==
    "Entity: "
    \o (IF "text" \in DOMAIN desc_record THEN desc_record["text"]
        ELSE "Unnamed Entity")
    \o " (Type: "
    \o (IF "label" \in DOMAIN desc_record THEN desc_record["label"]
        ELSE "Unknown")
    \o ")"

RelationshipHeads ==
    {RelationshipHead(s, t) : s \in EndpointTexts, t \in EndpointTexts}

AttributesGiven ==
    /\ "attributes" \in DOMAIN desc_record
    /\ "items" \in DOMAIN desc_record["attributes"]

AttributesEmpty ==
    /\ AttributesGiven
    /\ desc_record["attributes"].items = <<>>

\* C27: an entity description has the 'Attributes:' block exactly when
\* the entity's attributes are not None, so that an empty map shows as
\* 'Attributes: {}'; a relationship description has the block exactly
\* when its attributes are not empty, so that an empty map and None both
\* leave it out.
C27_AttributesBlock ==
    desc_out.raised = "ok" =>
        IF desc_kind = "entity"
        THEN IF AttributesGiven
             THEN /\ desc_out.description \in
                        {EntityHead \o b : b \in AttributeBlocks}
                  /\ AttributesEmpty =>
                        desc_out.description
                            = EntityHead \o "\nAttributes: {}"
             ELSE desc_out.description = EntityHead
        ELSE IF AttributesGiven /\ ~AttributesEmpty
             THEN desc_out.description \in
                    {h \o b : h \in RelationshipHeads,
                              b \in AttributeBlocks \ {"\nAttributes: {}"}}
             ELSE desc_out.description \in RelationshipHeads

\* an entity with an empty attribute map has been described
C27_Witness ==
    /\ desc_kind = "entity"
    /\ desc_out.raised = "ok"
    /\ AttributesEmpty

\* a relationship with an empty attribute map has been described
C27_WitnessRelationship ==
    /\ desc_kind = "relationship"
    /\ desc_out.raised = "ok"
    /\ AttributesEmpty

\* the keys of the edges from u to v
KeysBetween(u, v) ==
    {e[3] : e \in {x \in DOMAIN graph.edges : x[1] = u /\ x[2] = v}}

\* the chunk ids the edge <<u, v, key>> carries
EdgeChunkIds(u, v, key) ==
    IF /\ <<u, v, key>> \in DOMAIN graph.edges
       /\ "text_chunk_id" \in DOMAIN graph.edges[<<u, v, key>>]
    THEN {graph.edges[<<u, v, key>>]["text_chunk_id"]}
    ELSE {}

EdgeQueried == last.op = "get_source_ids_for_edge"

\* C23: get_source_ids_for_edge(graph, u, v) without a key returns the
\* union, over every key k of an edge from u to v, of
\* get_source_ids_for_edge(graph, u, v, k); with a key it returns that one
\* edge's chunk ids.
C23_NoKeyIsUnionOverKeys ==
    /\ (EdgeQueried /\ Len(last.arg) = 2) =>
          last.ret =
              UNION {get_source_ids_for_edge(graph, last.arg[1],
                                             last.arg[2], k) :
                       k \in KeysBetween(last.arg[1], last.arg[2])}
    /\ (EdgeQueried /\ Len(last.arg) = 3) =>
          last.ret = EdgeChunkIds(last.arg[1], last.arg[2], last.arg[3])

\* the query without a key, of two parallel edges from two chunks
C23_Witness ==
    /\ EdgeQueried
    /\ Len(last.arg) = 2
    /\ KeysBetween(last.arg[1], last.arg[2]) = {0, 1}
    /\ last.ret = {"c1", "c2"}

\* C24: a provenance query reports absence as the empty set and never
\* raises: get_source_ids_for_node when the node is not in the graph or
\* has no chunk id, get_source_ids_for_edge when there is no edge from u
\* to v, when no edge from u to v has the key, or when the edge has no
\* chunk id.
C24_AbsenceIsEmptySet ==
    /\ last.raised = "ok"
    /\ (/\ last.op = "get_source_ids_for_node"
        /\ \/ last.arg[1] \notin DOMAIN graph.nodes
           \/ "text_chunk_id" \notin DOMAIN graph.nodes[last.arg[1]])
          => last.ret = {}
    /\ (/\ EdgeQueried
        /\ \/ KeysBetween(last.arg[1], last.arg[2]) = {}
           \/ /\ Len(last.arg) = 3
              /\ last.arg[3] \notin KeysBetween(last.arg[1], last.arg[2])
           \/ /\ Len(last.arg) = 3
              /\ EdgeChunkIds(last.arg[1], last.arg[2], last.arg[3]) = {}
           \/ /\ Len(last.arg) = 2
              /\ \A k \in KeysBetween(last.arg[1], last.arg[2]) :
                    EdgeChunkIds(last.arg[1], last.arg[2], k) = {})
          => last.ret = {}

\* a key asked for that no edge between the two nodes has, while another
\* edge between them carries a chunk id
C24_Witness ==
    /\ EdgeQueried
    /\ Len(last.arg) = 3
    /\ KeysBetween(last.arg[1], last.arg[2]) = {0}
    /\ EdgeChunkIds(last.arg[1], last.arg[2], 0) # {}
    /\ last.arg[3] = 1
    /\ last.ret = {}

\* a node asked for that the graph holds without a chunk id
C24_WitnessNode ==
    /\ last.op = "get_source_ids_for_node"
    /\ last.arg[1] \in DOMAIN graph.nodes
    /\ "text_chunk_id" \notin DOMAIN graph.nodes[last.arg[1]]
    /\ last.ret = {}

\* the store calls of the batch come in the order clear_session_tracking,
\* then the add_node calls, then the add_edge calls
SessionThenNodesThenEdges ==
    /\ calls # <<>>
    /\ calls[1].op = "clear_session_tracking"
    /\ CountCalls(calls, "clear_session_tracking") = 1
    /\ \A i \in DOMAIN calls, j \in DOMAIN calls :
          (calls[i].op = "add_node" /\ calls[j].op = "add_edge") => i < j

\* C25: in each batch of build_or_update_graph on an available store,
\* clear_session_tracking is called exactly once and before any add_node,
\* every add_node call precedes every add_edge call, and when every entity
\* of the batch failed each relationship is still attempted.
C25_BatchCallOrder ==
    [][ (pc # "idle" /\ pc' = "idle")
        => /\ SessionThenNodesThenEdges
           /\ (entities # <<>> /\ OkRets(calls, "add_node") = <<>>)
                => CountCalls(calls, "add_edge") = Len(relationships)
      ]_vars

\* both endpoints the relationship names are ids of stored nodes
EndpointsStored(relationship) ==
    /\ Get(relationship, "source_entity_id") \in DOMAIN nodes
    /\ Get(relationship, "target_entity_id") \in DOMAIN nodes

\* add_edge(relationship) has the same outcome, and leaves the same tables,
\* on the store as it is and on the store with its session cleared
SameAfterClear(relationship) ==
    LET kept    == add_edge([nodes |-> nodes, edges |-> edges,
                             temp |-> temp_node_ids], relationship)
        cleared == add_edge([nodes |-> nodes, edges |-> edges, temp |-> {}],
                            relationship)
    IN  /\ kept.raised = cleared.raised
        /\ kept.ret = cleared.ret
        /\ kept.store.nodes = cleared.store.nodes
        /\ kept.store.edges = cleared.store.edges
        /\ kept.raised = "ok" <=> EndpointsStored(relationship)

\* C29: in every reachable state of the graph store the ids the session
\* has touched are ids of stored nodes; so add_edge accepts a relationship
\* exactly when both its endpoints are stored nodes, and whether
\* clear_session_tracking was called or not changes neither the outcome of
\* a later add_edge nor the node and edge tables.
C29_SessionSetIsRedundant ==
    /\ [](/\ temp_node_ids \subseteq DOMAIN nodes
          /\ \A relationship \in
                   {[id |-> "r1", source_entity_id |-> s,
                     target_entity_id |-> t] :
                        s \in {"e1", "node_1", "node_2", "node_3"},
                        t \in {"e1", "node_1", "node_2", "node_3"}} :
                SameAfterClear(relationship)
          /\ (last.op = "add_edge" /\ "notadict" \notin DOMAIN last.arg)
                => (last.raised = "ok" <=> EndpointsStored(last.arg)))
    /\ [][ last'.op = "clear_session_tracking"
              => (nodes' = nodes /\ edges' = edges) ]_vars

\* an edge accepted with no id in the session's set: both endpoints were
\* stored before the session was cleared
C29_Witness ==
    /\ last.op = "add_edge"
    /\ last.raised = "ok"
    /\ temp_node_ids = {}
    /\ DOMAIN nodes # {}

\* the embed_batch call made for a kind, as es_calls records it
EmbedCallOf(kind) ==
    es_calls[CHOOSE i \in DOMAIN es_calls :
                es_calls[i].op = "embed_batch" /\ es_calls[i].kind = kind]

\* the record is the one built for the k-th input item of the kind
RecordOfInput(record, kind, prefix, inputs, k) ==
    /\ record["id"] = prefix \o Get(inputs[k], "id")
    /\ record["metadata"]["type"] = kind
    /\ record["text_description"] = EmbedCallOf(kind).texts[k]
    /\ record["vector"] = EmbedCallOf(kind).vectors[k]

\* C26: in the list handed to add_items the k-th record of a kind carries
\* the prefixed id and the description of the k-th input item of that kind
\* and the k-th vector that kind's embed_batch call returned; the entity
\* records come first, then the relationship records, each in input order.
C26_RecordsFollowInputOrder ==
    \A i \in DOMAIN es_calls :
        es_calls[i].op = "add_items" =>
            LET items == es_calls[i].items
                e == entities_processed_count
                r == relationships_processed_count
            IN  /\ Len(items) = e + r
                /\ e <= Len(es_entities)
                /\ r <= Len(es_relationships)
                /\ \A k \in 1..e :
                      RecordOfInput(items[k], "entity", "entity_",
                                    es_entities, k)
                /\ \A k \in 1..r :
                      RecordOfInput(items[e + k], "relationship",
                                    "relationship_", es_relationships, k)

\* add_items was handed the record of an entity and the records of two
\* relationships with different ids
C26_Witness ==
    /\ \E i \in DOMAIN es_calls :
          es_calls[i].op = "add_items" /\ Len(es_calls[i].items) = 3
    /\ entities_processed_count = 1
    /\ relationships_processed_count = 2
    /\ es_relationships[1]["id"] # es_relationships[2]["id"]

\* C30: when add_items is called, the number of records it is handed is
\* entities_processed plus relationships_processed, and neither count is
\* more than the size of its input list; so also when the assembly of a
\* kind stopped part-way.
C30_CountsAreRecordsHanded ==
    /\ entities_processed_count <= Len(es_entities)
    /\ relationships_processed_count <= Len(es_relationships)
    /\ \A i \in DOMAIN es_calls :
          es_calls[i].op = "add_items" =>
              Len(es_calls[i].items) =
                  entities_processed_count + relationships_processed_count
    /\ (es_pc = "returned" /\ es_result.raised = "ok"
        /\ \E i \in DOMAIN es_calls : es_calls[i].op = "add_items") =>
          \A i \in DOMAIN es_calls :
              es_calls[i].op = "add_items" =>
                  Len(es_calls[i].items) =
                      es_result.ret.entities_processed
                      + es_result.ret.relationships_processed

\* add_items was handed one record while two entities were submitted: the
\* second entity has no id and ended the assembly
C30_Witness ==
    /\ Len(es_entities) = 2
    /\ es_relationships = <<>>
    /\ entities_processed_count = 1
    /\ \E i \in DOMAIN es_calls :
          es_calls[i].op = "add_items" /\ Len(es_calls[i].items) = 1

\* the load of the file at the path fails: read_gml raises
LoadFails ==
    \/ ~gml_file.readable
    \/ \E a \in gml_file.nodes, b \in gml_file.nodes :
          a.label = b.label /\ a # b

\* C28: after any sequence of add_nodes_from_text_chunks and
\* load_graph_gml calls, loads that fail included, node_counter is greater
\* than every integer node id of the graph; so the ids
\* add_nodes_from_text_chunks returns are consecutive from node_counter
\* and are ids of no node the graph held, and no node it held is changed;
\* a load that fails leaves an empty graph and node_counter 0.
C28_CounterAboveNodeIds ==
    /\ [](\A n \in DOMAIN gb_graph.nodes :
             "int" \in DOMAIN n => n.int < node_counter)
    /\ [][ /\ last'.op = "add_nodes_from_text_chunks" =>
                /\ node_ids' = [i \in 1..Len(last'.arg) |->
                                   node_counter + i - 1]
                /\ node_counter' = node_counter + Len(last'.arg)
                /\ \A i \in DOMAIN node_ids' :
                      [int |-> node_ids'[i]] \notin DOMAIN gb_graph.nodes
                /\ \A n \in DOMAIN gb_graph.nodes :
                      /\ n \in DOMAIN gb_graph'.nodes
                      /\ gb_graph'.nodes[n] = gb_graph.nodes[n]
           /\ (last'.op = "load_graph_gml" /\ LoadFails) =>
                /\ gb_graph' = [nodes |-> <<>>, edges |-> {}]
                /\ node_counter' = 0
         ]_vars

\* nodes added after a saved graph of two nodes was loaded: the loaded
\* nodes 0 and 1 are there without their 'label', the new node is 2
C28_Witness ==
    /\ last.op = "add_nodes_from_text_chunks"
    /\ node_ids = <<2>>
    /\ [int |-> 0] \in DOMAIN gb_graph.nodes
    /\ DOMAIN gb_graph.nodes[[int |-> 0]] = {"text"}
    /\ DOMAIN gb_graph.nodes[[int |-> 2]] = {"text", "label"}

\* a load failed on a builder that held nodes
C28_WitnessFailedLoad ==
    /\ last.op = "load_graph_gml"
    /\ LoadFails
    /\ node_counter = 0
    /\ node_ids # <<>>

====
